---- MODULE Spec2Model ----
(***************************************************************************)
(* Retrieval pipeline of the chatbot: AutoMergingRetriever (chunk merger), *)
(* FusionRetriever (Reciprocal Rank Fusion), Reranker (cross-encoder       *)
(* reranking with a disabled mode) and the RAG strategies' generate_answer.*)
(*                                                                         *)
(* Strings whose length or content matters are sequences of one-character  *)
(* strings, so that len(), str.join() and str.strip() are computed and not *)
(* assumed.  Python's None/{} metadata is the empty function.              *)
(***************************************************************************)
EXTENDS Integers, Sequences, FiniteSets, TLC

VARIABLES
    op,                      \* the operation that produced the current state
    candidates,              \* what AutoMergingRetriever._fetch_candidates returns
    merge_char_limit,        \* AutoMergingRetriever.merge_char_limit
    max_chunks_per_merge,    \* AutoMergingRetriever.max_chunks_per_merge
    merged_documents,        \* result of AutoMergingRetriever.retrieve
    fusion_k,                \* FusionRetriever.k
    fuse_results,            \* fuse: the rankings, one list of texts per retriever
    fuse_top_k,              \* fuse: top_k
    fused,                   \* result of FusionRetriever.fuse
    rerank_enabled,          \* Reranker.enabled
    rerank_model,            \* Reranker.model: the cross-encoder, or None
    scorer,                  \* the score the cross-encoder gives to (query, doc), per doc
    rerank_docs,             \* rerank: docs
    rerank_top_k,            \* rerank: top_k
    reranked,                \* result of Reranker.rerank
    predict_calls,           \* how often Reranker.model.predict was called
    strategy,                \* which RAG strategy object is in use
    gen_query,               \* generate_answer: query
    retrieved_documents,     \* generate_answer: retrieved_documents
    chat_history,            \* generate_answer: chat_history
    llm_reply,               \* what generation_client.generate_text returns when called
    answer,                  \* generate_answer: first component of the result
    full_prompt,             \* generate_answer: second component of the result
    generate_calls,          \* the calls made to generation_client.generate_text
    rag_type,                \* create_strategy: rag_type
    factory_kwargs,          \* create_strategy: **kwargs
    created,                 \* result of RAGStrategyFactory.create_strategy
    variation_query,         \* _generate_query_variations: original_query
    variation_reply,         \* what generate_text gives back to _generate_query_variations
    fusion_num_queries,      \* FusionRAGStrategy.num_queries
    query_variations,        \* result of _generate_query_variations
    parse_response,          \* _parse_ranking: response
    parse_num_docs,          \* _parse_ranking: num_docs
    parsed_ranking,          \* result of _parse_ranking
    ret_strategy,            \* the strategy object retrieve_documents is called on
    ret_limit,               \* retrieve_documents: limit
    ret_reply,               \* what generate_text gives back during retrieve_documents
    ret_embeds,              \* what embed_text gives back, per call
    ret_finds,               \* what search_by_vector gives back, per query variation
    ret_result,              \* result of retrieve_documents
    chat_rows,               \* the chat_messages table, in created_at order
    mem_session,             \* DatabaseChatMemory call: session_id
    mem_project,             \* DatabaseChatMemory call: project_id
    mem_limit,               \* get_messages: limit
    mem_db_up,               \* FALSE when the database call of the method raised
    mem_messages,            \* result of get_messages
    pc,                      \* answer_rag_question: the await it stands at
    generation_model_id,     \* GeminiProvider.generation_model_id
    ans_rag_type,            \* answer_rag_question: rag_type
    ans_limit,               \* answer_rag_question: limit
    ans_history_limit,       \* answer_rag_question: chat_history_limit
    ans_history,             \* answer_rag_question: chat_history
    ans_strategy,            \* answer_rag_question: strategy
    ans_documents,           \* answer_rag_question: retrieved_documents
    ans_answer,              \* answer_rag_question: answer
    ans_prompt,              \* answer_rag_question: full_prompt
    ans_api,                 \* what generate_content did for generate_answer
    ans_calls,               \* the awaited calls answer_rag_question has made, in order
    arrivals,                \* ranked lists of texts, in the order they arrive
    arrival_order,           \* another order of arrival: a permutation of their indices
    arr_k,                   \* FusionRetriever.k
    arr_limit,               \* fuse: top_k; _reciprocal_rank_fusion: limit
    arr_fused,               \* the fused result for the lists as they arrive
    arr_fused_reordered,     \* the fused result for the other order of arrival
    window_size,             \* ConversationBufferMemory.window_size
    exchanges,               \* ConversationBufferMemory.exchanges
    buffer_added,            \* the exchanges added since the last clear, oldest first
    use_fusion,              \* app.py: the "Enable Fusion" toggle
    use_reranking,           \* app.py: the "Enable Reranking" toggle
    fusion_retriever,        \* app.py / main.py: the FusionRetriever, or None
    reranker,                \* app.py / main.py: the Reranker, or None
    memory_context,          \* memory.get_memory(), "" when there is none
    rag_texts,               \* page contents of the first merged documents
    web_texts,               \* page contents of the web results
    candidate_texts,         \* the texts after the fusion stage
    retrieved_texts,         \* the texts after the reranking stage
    generation_context,      \* the list handed to generator.answer_generation
    call_pc,                 \* two answer_rag_question calls: where each call is
    call_history,            \* the chat history each call read at its start
    call_answer,             \* the answer each call generated, or absent
    call_stored,             \* what add_message returned to each call, in order
    row_call,                \* for each row of chat_rows, the call that wrote it
    overlapped               \* a call wrote between the two writes of the other

mergeVars == <<candidates, merge_char_limit, max_chunks_per_merge, merged_documents>>

fuseVars == <<fusion_k, fuse_results, fuse_top_k, fused>>

rerankVars ==
    <<rerank_enabled, rerank_model, scorer, rerank_docs, rerank_top_k, reranked, predict_calls>>

strategyVars ==
    <<strategy, gen_query, retrieved_documents, chat_history, llm_reply, answer, full_prompt,
      generate_calls>>

factoryVars == <<rag_type, factory_kwargs, created>>

variationVars == <<variation_query, variation_reply, fusion_num_queries, query_variations>>

parseVars == <<parse_response, parse_num_docs, parsed_ranking>>

retrieveVars == <<ret_strategy, ret_limit, ret_reply, ret_embeds, ret_finds, ret_result>>

serviceVars == <<factoryVars, variationVars, parseVars, retrieveVars>>

memoryVars == <<chat_rows, mem_session, mem_project, mem_limit, mem_db_up, mem_messages>>

answerVars ==
    <<pc, generation_model_id, ans_rag_type, ans_limit, ans_history_limit, ans_history,
      ans_strategy, ans_documents, ans_answer, ans_prompt, ans_api, ans_calls>>

arrivalVars == <<arrivals, arrival_order, arr_k, arr_limit, arr_fused, arr_fused_reordered>>

exchangeVars == <<memoryVars, answerVars, arrivalVars>>

bufferVars == <<window_size, exchanges, buffer_added>>

interactiveVars ==
    <<use_fusion, use_reranking, fusion_retriever, reranker, memory_context, rag_texts,
      web_texts, candidate_texts, retrieved_texts, generation_context>>

concurrentVars ==
    <<call_pc, call_history, call_answer, call_stored, row_call, overlapped>>

appVars == <<bufferVars, interactiveVars, concurrentVars>>

(***************************************************************************)
(* Bounds of the model.                                                    *)
(***************************************************************************)
MaxCandidates == 3
MaxCharLimit == 2
MaxChunksPerMerge == 2
MaxRankings == 3
MaxRankLen == 3
MaxEntries == 6
MaxTopK == 3
MaxDocs == 3
MaxRetrieved == 2
MaxHistory == 2
MaxInputCharacters == 2
MaxHits == 2
MaxNumQueries == 3
MaxMultiplier == 2
MaxResponseLines == 3
MaxResponseLength == 4
MaxLimit == 2
MaxStored == 3
MaxHistoryLimit == 2
MaxPrior == 2
MaxArrivals == 2
MaxFlushCandidates == 3
MaxOrderCandidates == 2
MaxConversation == 4
MaxWindowSize == 2
MaxAdded == 4

(***************************************************************************)
(* Generic sequence helpers.                                               *)
(***************************************************************************)
SeqsUpTo(S, n) == UNION {[1..m -> S] : m \in 0..n}

Min(a, b) == IF a <= b THEN a ELSE b

\* s[:n] for n >= 0
Prefix(s, n) == SubSeq(s, 1, Min(n, Len(s)))

(***************************************************************************)
(* Strings as character sequences.                                         *)
(***************************************************************************)
Whitespace == {" ", "\n", "\t"}

RECURSIVE LStrip(_)
LStrip(s) == IF s # <<>> /\ Head(s) \in Whitespace THEN LStrip(Tail(s)) ELSE s

RECURSIVE RStrip(_)
RStrip(s) ==
    IF s # <<>> /\ s[Len(s)] \in Whitespace THEN RStrip(SubSeq(s, 1, Len(s) - 1)) ELSE s

\* str.strip()
Strip(s) == RStrip(LStrip(s))

\* "\n\n".join(parts)
RECURSIVE JoinParts(_)
JoinParts(parts) ==
    IF parts = <<>> THEN <<>>
    ELSE IF Len(parts) = 1 THEN parts[1]
    ELSE parts[1] \o <<"\n", "\n">> \o JoinParts(Tail(parts))

(***************************************************************************)
(* Documents.  metadata is a function from key names to string values.     *)
(***************************************************************************)
NoMeta == [key \in {} |-> ""]

None == "<None>"

\* dict.get(key) with Python truthiness: "" and a missing key are both falsy
Truthy(md, key) == key \in DOMAIN md /\ md[key] # ""

\* int(value): the decimal strings the model uses; anything else raises
IntValues == [s \in {"0", "1", "2"} |-> CASE s = "0" -> 0 [] s = "1" -> 1 [] s = "2" -> 2]

CanParseInt(v) == v \in DOMAIN IntValues

ParseInt(v) == IntValues[v]

\* the source identifier resolved at lines 34-38
SourceOf(md) ==
    IF Truthy(md, "source") THEN md["source"]
    ELSE IF Truthy(md, "file_name") THEN md["file_name"]
    ELSE IF Truthy(md, "path") THEN md["path"]
    ELSE "unknown_source"

\* the sources in order of first appearance (insertion order of the dict)
RECURSIVE SourceOrder(_, _)
SourceOrder(docs, seen) ==
    IF docs = <<>> THEN seen
    ELSE LET src == SourceOf(Head(docs).metadata)
         IN  SourceOrder(Tail(docs),
                 IF \E i \in 1..Len(seen) : seen[i] = src THEN seen ELSE Append(seen, src))

\* groups[src]: the documents of one source, in input order
GroupUnfiltered(docs, src) == docs

Group(docs, src) == SelectSeq(docs, LAMBDA d : SourceOf(d.metadata) = src)

OrderKeys == <<"chunk", "chunk_index", "page", "page_number", "part">>

RECURSIVE SortKeyFirstPresent(_, _)
SortKeyFirstPresent(md, i) ==
    IF i > Len(OrderKeys) THEN 0
    ELSE IF OrderKeys[i] \in DOMAIN md
         THEN IF CanParseInt(md[OrderKeys[i]]) THEN ParseInt(md[OrderKeys[i]]) ELSE 0
         ELSE SortKeyFirstPresent(md, i + 1)

\* sort_key: the first key that is present AND parses; a failed int() goes on
\* to the next key
RECURSIVE SortKeyFrom(_, _)
SortKeyFrom(md, i) ==
    IF i > Len(OrderKeys) THEN 0
    ELSE IF OrderKeys[i] \in DOMAIN md /\ CanParseInt(md[OrderKeys[i]])
         THEN ParseInt(md[OrderKeys[i]])
         ELSE SortKeyFrom(md, i + 1)

sort_key(doc) == SortKeyFrom(doc.metadata, 1)

\* sorted(docs, key=sort_key): stable, ascending; built by stable insertion
RECURSIVE InsertSorted(_, _)
InsertSorted(sorted, doc) ==
    IF sorted = <<>> THEN <<doc>>
    ELSE IF sort_key(Head(sorted)) <= sort_key(doc)
         THEN <<Head(sorted)>> \o InsertSorted(Tail(sorted), doc)
         ELSE <<doc>> \o sorted

RECURSIVE SortFrom(_, _)
SortFrom(docs, acc) ==
    IF docs = <<>> THEN acc ELSE SortFrom(Tail(docs), InsertSorted(acc, Head(docs)))

OrderDocsUnsorted(docs) == docs

_order_docs(docs) == SortFrom(docs, <<>>)

Member(doc) ==
    [id   |-> IF "id" \in DOMAIN doc.metadata THEN doc.metadata["id"] ELSE None,
     meta |-> doc.metadata]

FlushWithoutLast(src, parts, members) ==
    [page_content |-> Strip(JoinParts(parts)),
     metadata     |-> [source |-> src,
                       merged_from_count |-> Len(members),
                       members |-> SubSeq(members, 1, Len(members) - 1)]]

\* the Document built at lines 101-107 and 119-125
Flush(src, parts, members) ==
    [page_content |-> Strip(JoinParts(parts)),
     metadata     |-> [source |-> src,
                       merged_from_count |-> Len(members),
                       members |-> members]]

\* the condition of lines 97-100
MustFlushNoCharLimit(buf, txt, char_limit, max_members) ==
    buf.parts # <<>> /\ buf.count + 1 > max_members

MustFlushAtLimit(buf, txt, char_limit, max_members) ==
    /\ buf.parts # <<>>
    /\ \/ buf.len + Len(txt) >= char_limit
       \/ buf.count + 1 > max_members

MustFlush(buf, txt, char_limit, max_members) ==
    /\ buf.parts # <<>>
    /\ \/ buf.len + Len(txt) > char_limit
       \/ buf.count + 1 > max_members

EmptyBuffer == [parts |-> <<>>, members |-> <<>>, len |-> 0, count |-> 0]

\* the loop over one ordered group, lines 94-125: returns the group's merged documents
RECURSIVE MergeGroup(_, _, _, _, _, _)
MergeGroup(src, docs, buf, out, char_limit, max_members) ==
    IF docs = <<>>
    THEN IF buf.parts # <<>> THEN Append(out, Flush(src, buf.parts, buf.members)) ELSE out
    ELSE LET doc     == Head(docs)
             txt     == doc.page_content
             flush   == MustFlush(buf, txt, char_limit, max_members)
             out1    == IF flush THEN Append(out, Flush(src, buf.parts, buf.members)) ELSE out
             buf1    == IF flush THEN EmptyBuffer ELSE buf
             buf2    == [parts   |-> Append(buf1.parts, txt),
                         members |-> Append(buf1.members, Member(doc)),
                         len     |-> buf1.len + Len(txt),
                         count   |-> buf1.count + 1]
         IN  MergeGroup(src, Tail(docs), buf2, out1, char_limit, max_members)

RECURSIVE MergeAll(_, _, _, _)
MergeAll(docs, srcs, char_limit, max_members) ==
    IF srcs = <<>> THEN <<>>
    ELSE MergeGroup(Head(srcs), _order_docs(Group(docs, Head(srcs))), EmptyBuffer, <<>>,
                    char_limit, max_members)
         \o MergeAll(docs, Tail(srcs), char_limit, max_members)

\* AutoMergingRetriever.retrieve applied to the fetched candidates
MergedOf(docs, char_limit, max_members) ==
    MergeAll(docs, SourceOrder(docs, <<>>), char_limit, max_members)

(***************************************************************************)
(* ConversationBufferMemory (rag/conversation_memory.py).                  *)
(***************************************************************************)
\* exchanges[-window_size:]: a slice from -0 is a slice from 0, the whole list
LastExchanges(all_exchanges, size) ==
    IF size = 0 THEN all_exchanges
    ELSE SubSeq(all_exchanges, Len(all_exchanges) - Min(size, Len(all_exchanges)) + 1,
                Len(all_exchanges))

add_memory(held, size, user_input, ai_output) ==
    LET appended == Append(held, <<user_input, ai_output>>)
    IN  IF Len(appended) > size THEN LastExchanges(appended, size) ELSE appended

(***************************************************************************)
(* Python floats.  A positive IEEE-754 double is [e, hi, lo]: the 53-bit   *)
(* significand is hi * 2^26 + lo (2^26 <= hi < 2^27, 0 <= lo < 2^26) and   *)
(* the value is significand * 2^e.  0.0 is FZero.  Division and addition   *)
(* round to nearest, ties to even, as the interpreter does; the magnitudes *)
(* of the model stay far from overflow and subnormals.                     *)
(***************************************************************************)
Limb == 2^26

FZero == [e |-> 0, hi |-> 0, lo |-> 0]

RECURSIVE CeilLog2From(_, _)
CeilLog2From(n, c) == IF 2^c >= n THEN c ELSE CeilLog2From(n, c + 1)

\* `steps` steps of binary long division by n, from remainder r and quotient q
RECURSIVE DivBits(_, _, _, _)
DivBits(r, n, steps, q) ==
    IF steps = 0 THEN [q |-> q, r |-> r]
    ELSE IF 2 * r >= n THEN DivBits(2 * r - n, n, steps - 1, 2 * q + 1)
         ELSE DivBits(2 * r, n, steps - 1, 2 * q)

\* the next double above a positive double
FNext(x) ==
    IF x.lo + 1 < Limb THEN [x EXCEPT !.lo = x.lo + 1]
    ELSE IF x.hi + 1 < 2 * Limb THEN [x EXCEPT !.hi = x.hi + 1, !.lo = 0]
    ELSE [e |-> x.e + 1, hi |-> Limb, lo |-> 0]

\* round to nearest, ties to even: cmp is how the discarded part compares to half an ulp
FRound(x, cmp) ==
    IF cmp = "above" \/ (cmp = "half" /\ x.lo % 2 = 1) THEN FNext(x) ELSE x

\* 1 / n for an int n >= 1 (true division of ints is correctly rounded)
FRecip(n) ==
    LET s    == 52 + CeilLog2From(n, 0)
        top  == DivBits(IF n = 1 THEN 0 ELSE 1, n, s - 26, IF n = 1 THEN 1 ELSE 0)
        low  == DivBits(top.r, n, 26, 0)
        cmp  == IF 2 * low.r > n THEN "above" ELSE IF 2 * low.r = n THEN "half" ELSE "below"
    IN  FRound([e |-> 0 - s, hi |-> top.q, lo |-> low.q], cmp)

\* a + b for doubles a >= 0, b >= 0 whose exponents differ by at most 26
FAddOrdered(a, b) ==
    LET d    == a.e - b.e
        p    == CASE d \in 0..26 -> 2^d
        bh   == b.hi \div p
        bl   == (b.hi % p) * (Limb \div p) + (b.lo \div p)
        rem  == b.lo % p
        lo0  == (a.lo + bl) % Limb
        hi0  == a.hi + bh + ((a.lo + bl) \div Limb)
    IN  IF hi0 >= 2 * Limb
        THEN FRound([e |-> a.e + 1, hi |-> hi0 \div 2,
                     lo |-> (hi0 % 2) * (Limb \div 2) + (lo0 \div 2)],
                    IF lo0 % 2 = 0 THEN "below" ELSE IF rem = 0 THEN "half" ELSE "above")
        ELSE FRound([e |-> a.e, hi |-> hi0, lo |-> lo0],
                    IF 2 * rem > p THEN "above" ELSE IF 2 * rem = p THEN "half" ELSE "below")

FAdd(a, b) ==
    IF a = FZero THEN b
    ELSE IF b = FZero THEN a
    ELSE IF a.e >= b.e THEN FAddOrdered(a, b) ELSE FAddOrdered(b, a)

\* a < b for doubles a, b > 0
FLess(a, b) ==
    \/ a.e < b.e
    \/ a.e = b.e /\ a.hi < b.hi
    \/ a.e = b.e /\ a.hi = b.hi /\ a.lo < b.lo

\* a <= b for doubles a, b >= 0
FLessEq(a, b) == a = b \/ (b # FZero /\ (a = FZero \/ FLess(a, b)))

FOne == [e |-> 0 - 52, hi |-> Limb, lo |-> 0]

RECURSIVE FloorLog2From(_, _)
FloorLog2From(n, c) == IF 2^(c + 1) > n THEN c ELSE FloorLog2From(n, c + 1)

\* float(i) for an int 0 <= i < 2^27
FromInt(i) ==
    IF i = 0 THEN FZero
    ELSE LET fl == FloorLog2From(i, 0)
         IN  [e |-> fl - 52, hi |-> i * 2^(26 - fl), lo |-> 0]

\* the significand of x times 2^s, divided by n: quotient in two limbs, and remainder
LimbDiv(x, s, n) ==
    LET top == x.hi * 2^s
        low == (top % n) * Limb + x.lo * 2^s
    IN  [hi |-> (top \div n) + ((low \div n) \div Limb),
         lo |-> (low \div n) % Limb,
         r  |-> low % n]

\* x / n for a double x >= 0 and an int 1 <= n <= 8, correctly rounded
FDivInt(x, n) ==
    IF x = FZero THEN FZero
    ELSE LET c   == CASE n \in 1..8 -> CeilLog2From(n, 0)
             big == LimbDiv(x, c, n)
             s   == IF big.hi >= 2 * Limb THEN c - 1 ELSE c
             q   == IF s = c THEN big ELSE LimbDiv(x, s, n)
             cmp == IF 2 * q.r > n THEN "above" ELSE IF 2 * q.r = n THEN "half" ELSE "below"
         IN  FRound([e |-> x.e - s, hi |-> q.hi, lo |-> q.lo], cmp)

\* x / 2: exact
FHalf(x) == IF x = FZero THEN FZero ELSE [x EXCEPT !.e = x.e - 1]

\* shift a non-zero significand left until it has 53 bits
RECURSIVE FNormalize(_)
FNormalize(x) ==
    IF x.hi >= Limb THEN x
    ELSE FNormalize([e  |-> x.e - 1,
                     hi |-> 2 * x.hi + (x.lo \div (Limb \div 2)),
                     lo |-> (2 * x.lo) % Limb])

\* 2^53 - (hi * 2^26 + lo), in two limbs
FromTop(hi, lo) ==
    [hi |-> 2 * Limb - hi - (IF lo > 0 THEN 1 ELSE 0), lo |-> (Limb - lo) % Limb]

\* 1.0 - x for a double 0 <= x < 1 with x = 0 or x >= 2^-27
FOneMinus(x) ==
    IF x = FZero THEN FOne
    ELSE IF x.e = 0 - 53
    THEN LET d == FromTop(x.hi, x.lo) IN FNormalize([e |-> 0 - 53, hi |-> d.hi, lo |-> d.lo])
    ELSE LET shift == (0 - 53) - x.e
             p     == CASE shift \in 1..26 -> 2^shift
             uhi   == x.hi \div p
             ulo   == (x.hi % p) * (Limb \div p) + (x.lo \div p)
             v     == x.lo % p
             up    == IF v = 0 THEN [hi |-> uhi, lo |-> ulo]
                      ELSE IF ulo + 1 < Limb THEN [hi |-> uhi, lo |-> ulo + 1]
                      ELSE [hi |-> uhi + 1, lo |-> 0]
             d     == FromTop(up.hi, up.lo)
             rem   == p - v
             cmp   == IF v = 0 THEN "below"
                      ELSE IF 2 * rem > p THEN "above"
                      ELSE IF 2 * rem = p THEN "half" ELSE "below"
         IN  FRound([e |-> 0 - 53, hi |-> d.hi, lo |-> d.lo], cmp)

(***************************************************************************)
(* FusionRetriever.fuse.  scores, the defaultdict(float), is a sequence of *)
(* [doc, score] in insertion order, which is the order a dict iterates in. *)
(***************************************************************************)
\* FusionRetriever(k=60)
DefaultK == 60

HasScore(scores, doc) == \E i \in 1..Len(scores) : scores[i].doc = doc

\* scores[doc] = term: the accumulation lost
AddScoreOverwrite(scores, doc, term) ==
    IF HasScore(scores, doc)
    THEN [i \in 1..Len(scores) |->
             IF scores[i].doc = doc THEN [doc |-> doc, score |-> term] ELSE scores[i]]
    ELSE Append(scores, [doc |-> doc, score |-> FAdd(FZero, term)])

\* scores[doc] += term
AddScore(scores, doc, term) ==
    IF HasScore(scores, doc)
    THEN [i \in 1..Len(scores) |->
             IF scores[i].doc = doc
             THEN [doc |-> doc, score |-> FAdd(scores[i].score, term)]
             ELSE scores[i]]
    ELSE Append(scores, [doc |-> doc, score |-> FAdd(FZero, term)])

\* 1 / n for every denominator k + rank + 1 of the model, computed once
Reciprocals == [n \in 1..(DefaultK + MaxRankLen + 1) |-> FRecip(n)]

\* 1 / (self.k + rank + 1), rank counted from 0
Contribution(kk, rank) == Reciprocals[kk + rank + 1]

RECURSIVE ScoreRanking(_, _, _, _)
ScoreRanking(scores, ranking, rank, kk) ==
    IF rank >= Len(ranking) THEN scores
    ELSE ScoreRanking(AddScore(scores, ranking[rank + 1], Contribution(kk, rank)),
                      ranking, rank + 1, kk)

RECURSIVE ScoreAll(_, _, _)
ScoreAll(scores, rankings, kk) ==
    IF rankings = <<>> THEN scores
    ELSE ScoreAll(ScoreRanking(scores, Head(rankings), 0, kk), Tail(rankings), kk)

\* one step of an ascending sort: reverse=True forgotten
InsertByScoreAscending(sorted, item) ==
    IF sorted # <<>> /\ FLess(item.score, sorted[Len(sorted)].score)
    THEN <<item>> \o sorted
    ELSE Append(sorted, item)

\* one step of a descending sort that puts a later item before its equals
RECURSIVE InsertByScoreUnstable(_, _)
InsertByScoreUnstable(sorted, item) ==
    IF sorted = <<>> THEN <<item>>
    ELSE IF FLess(item.score, Head(sorted).score)
         THEN <<Head(sorted)>> \o InsertByScoreUnstable(Tail(sorted), item)
         ELSE <<item>> \o sorted

\* sorted(..., key=score, reverse=True) is stable: an item goes after every
\* earlier item whose score is not smaller
RECURSIVE InsertByScore(_, _)
InsertByScore(sorted, item) ==
    IF sorted = <<>> THEN <<item>>
    ELSE IF FLess(Head(sorted).score, item.score)
         THEN <<item>> \o sorted
         ELSE <<Head(sorted)>> \o InsertByScore(Tail(sorted), item)

RECURSIVE SortByScore(_, _)
SortByScore(items, acc) ==
    IF items = <<>> THEN acc ELSE SortByScore(Tail(items), InsertByScore(acc, Head(items)))

\* FusionRetriever.fuse(results, top_k), top_k >= 0
FuseOf(kk, rankings, topk) ==
    LET top == Prefix(SortByScore(ScoreAll(<<>>, rankings, kk), <<>>), topk)
    IN  [i \in 1..Len(top) |-> top[i].doc]

(***************************************************************************)
(* Reranker.rerank.                                                        *)
(***************************************************************************)
\* the score of the pass-through mode
DisabledScore == 1

RerankDisabledNever(isEnabled, mdl) == FALSE

\* not self.enabled or not self.model
RerankDisabled(isEnabled, mdl) == ~isEnabled \/ mdl = None

\* [(doc, 1.0) for doc in docs[:top_k]]
PassThrough(dd, topk) ==
    [i \in 1..Len(Prefix(dd, topk)) |-> [doc |-> dd[i], score |-> DisabledScore]]

\* list(zip(docs, self.model.predict(pairs)))
Scored(dd, sc) == [i \in 1..Len(dd) |-> [doc |-> dd[i], score |-> sc[dd[i]]]]

\* scored.sort(key=score, reverse=True): stable, on the predicted scores
RECURSIVE InsertScored(_, _)
InsertScored(sorted, item) ==
    IF sorted = <<>> THEN <<item>>
    ELSE IF Head(sorted).score < item.score
         THEN <<item>> \o sorted
         ELSE <<Head(sorted)>> \o InsertScored(Tail(sorted), item)

RECURSIVE SortScored(_, _)
SortScored(items, acc) ==
    IF items = <<>> THEN acc ELSE SortScored(Tail(items), InsertScored(acc, Head(items)))

RerankedUnsorted(dd, sc, topk) == Prefix(Scored(dd, sc), topk)

RerankedOf(dd, sc, topk) == Prefix(SortScored(Scored(dd, sc), <<>>), topk)

(***************************************************************************)
(* Inputs of the merger.                                                   *)
(***************************************************************************)
Texts == {<<>>, <<"a">>, <<" ", "a">>}

Metas ==
    {NoMeta,
     [source |-> "s1", chunk |-> "1"],
     [source |-> "", file_name |-> "s1", chunk |-> "x", page |-> "0", id |-> "n7"],
     [path |-> "s2", part |-> "2"]}

Docs == [page_content : Texts, metadata : Metas]

MergeIdle ==
    /\ candidates = <<>>
    /\ merge_char_limit = 0
    /\ max_chunks_per_merge = 0
    /\ merged_documents = <<>>

MergeInit ==
    /\ candidates \in SeqsUpTo(Docs, MaxCandidates)
    /\ merge_char_limit \in 1..MaxCharLimit
    /\ max_chunks_per_merge \in 1..MaxChunksPerMerge
    /\ merged_documents = <<>>

\* AutoMergingRetriever.retrieve
Retrieve ==
    /\ op' = "retrieve"
    /\ merged_documents' = MergedOf(candidates, merge_char_limit, max_chunks_per_merge)
    /\ UNCHANGED <<candidates, merge_char_limit, max_chunks_per_merge>>
    /\ UNCHANGED <<fuseVars, rerankVars, strategyVars>>
    /\ UNCHANGED <<serviceVars, exchangeVars>>
    /\ UNCHANGED appVars

(***************************************************************************)
(* Inputs of the flush rule: chunks of one source whose texts are empty or *)
(* thirty characters long, limits around thirty and sixty characters, and  *)
(* member limits from zero upwards.                                        *)
(***************************************************************************)
ThirtyOf(c) == [i \in 1..30 |-> c]

FlushTexts == {<<>>, ThirtyOf("A"), ThirtyOf("B")}

FlushMetas == {[source |-> "s1", chunk |-> "0"], [source |-> "s1", chunk |-> "1"]}

FlushDocs == [page_content : FlushTexts, metadata : FlushMetas]

CharLimits == {0, 30, 50, 60}

MemberLimits == (0..MaxChunksPerMerge) \cup {10}

FlushInit ==
    /\ candidates \in SeqsUpTo(FlushDocs, MaxFlushCandidates)
    /\ merge_char_limit \in CharLimits
    /\ max_chunks_per_merge \in MemberLimits
    /\ merged_documents = <<>>

(***************************************************************************)
(* Inputs of the ordinal key: chunks of one text whose metadata holds any  *)
(* of two ordinal keys, each with a value that parses or does not.         *)
(***************************************************************************)
OrderMetaKeys == {"chunk", "page"}

OrderMetaValues == {"1", "2", "x"}

OrderMetas == UNION {[keys -> OrderMetaValues] : keys \in SUBSET OrderMetaKeys}

OrderDocs == [page_content : {<<"a">>}, metadata : OrderMetas]

OrderInit ==
    /\ candidates \in SeqsUpTo(OrderDocs, MaxOrderCandidates)
    /\ merge_char_limit \in 1..MaxCharLimit
    /\ max_chunks_per_merge = MaxChunksPerMerge
    /\ merged_documents = <<>>

(***************************************************************************)
(* Inputs of the rank fuser: every list of at most MaxRankings rankings of *)
(* at most MaxRankLen texts over two texts (repeats included) with at most *)
(* MaxEntries entries in all, and every pair of orderings of three texts.  *)
(***************************************************************************)
Ks == {0, 2, DefaultK}

RECURSIVE TotalLen(_)
TotalLen(rankings) ==
    IF rankings = <<>> THEN 0 ELSE Len(Head(rankings)) + TotalLen(Tail(rankings))

Permutations3 ==
    {r \in [1..3 -> {"a", "b", "c"}] : \A i, j \in 1..3 : i # j => r[i] # r[j]}

FuseInputs ==
    {r \in SeqsUpTo(SeqsUpTo({"a", "b"}, MaxRankLen), MaxRankings) : TotalLen(r) <= MaxEntries}
        \cup [1..2 -> Permutations3]

FuseIdle ==
    /\ fusion_k = 0
    /\ fuse_results = <<>>
    /\ fuse_top_k = 0
    /\ fused = <<>>

FuseInit ==
    /\ fusion_k \in Ks
    /\ fuse_results \in FuseInputs
    /\ fuse_top_k \in 0..MaxTopK
    /\ fused = <<>>

\* FusionRetriever.fuse
Fuse ==
    /\ op' = "fuse"
    /\ fused' = FuseOf(fusion_k, fuse_results, fuse_top_k)
    /\ UNCHANGED <<fusion_k, fuse_results, fuse_top_k>>
    /\ UNCHANGED <<mergeVars, rerankVars, strategyVars>>
    /\ UNCHANGED <<serviceVars, exchangeVars>>
    /\ UNCHANGED appVars

(***************************************************************************)
(* Inputs of the reranker.  The constructor leaves enabled and model set   *)
(* together: the cross-encoder loaded, or the load failed.                 *)
(***************************************************************************)
RerankTexts == {"a", "b", "c"}

PredictScores == {-1, 0, 2}

RerankIdle ==
    /\ rerank_enabled = FALSE
    /\ rerank_model = None
    /\ scorer = <<>>
    /\ rerank_docs = <<>>
    /\ rerank_top_k = 0
    /\ reranked = <<>>
    /\ predict_calls = 0

RerankInit ==
    /\ \/ rerank_enabled = TRUE /\ rerank_model = "CrossEncoder"
       \/ rerank_enabled = FALSE /\ rerank_model = None
    /\ scorer \in [RerankTexts -> PredictScores]
    /\ rerank_docs \in SeqsUpTo(RerankTexts, MaxDocs)
    /\ rerank_top_k \in 0..MaxTopK
    /\ reranked = <<>>
    /\ predict_calls = 0

\* Reranker.rerank, pass-through branch (line 19-20)
RerankPassThrough ==
    /\ op = "init"
    /\ RerankDisabled(rerank_enabled, rerank_model)
    /\ op' = "rerank"
    /\ reranked' = PassThrough(rerank_docs, rerank_top_k)
    /\ UNCHANGED <<rerank_enabled, rerank_model, scorer, rerank_docs, rerank_top_k,
                   predict_calls>>
    /\ UNCHANGED <<mergeVars, fuseVars, strategyVars>>
    /\ UNCHANGED <<serviceVars, exchangeVars>>
    /\ UNCHANGED appVars

\* Reranker.rerank, scoring branch (lines 22-26)
RerankScored ==
    /\ op = "init"
    /\ ~RerankDisabled(rerank_enabled, rerank_model)
    /\ op' = "rerank"
    /\ predict_calls' = predict_calls + 1
    /\ reranked' = RerankedOf(rerank_docs, scorer, rerank_top_k)
    /\ UNCHANGED <<rerank_enabled, rerank_model, scorer, rerank_docs, rerank_top_k>>
    /\ UNCHANGED <<mergeVars, fuseVars, strategyVars>>
    /\ UNCHANGED <<serviceVars, exchangeVars>>
    /\ UNCHANGED appVars

(***************************************************************************)
(* generate_answer of the three strategies.  A prompt is the sequence of   *)
(* its parts: one part per document, then the footer; "" is <<>>.          *)
(***************************************************************************)
\* GeminiProvider.process_text: text[:default_input_max_characters].strip()
process_text(text) == Strip(Prefix(text, MaxInputCharacters))

\* "\n".join of the document prompts: doc_num counts from 1
DocumentsPrompts(documents) ==
    [i \in 1..Len(documents) |->
        [part |-> "document", doc_num |-> i, chunk_text |-> process_text(documents[i].text)]]

FooterPrompt(q) == [part |-> "footer", query |-> q]

\* "\n\n".join([documents_prompts, footer_prompt])
FullPrompt(q, documents) == Append(DocumentsPrompts(documents), FooterPrompt(q))

\* GeminiProvider.construct_prompt(prompt, role)
construct_prompt(prompt, role) == [role |-> role, content |-> prompt]

\* the text of the "rag" system_prompt template, its first words standing for it
SystemPrompt == <<"Y", "o", "u", " ", "a", "r", "e">>

\* construct_prompt(system_prompt, SYSTEM role): GeminiEnums.SYSTEM.value is "user"
SystemMessage == construct_prompt(SystemPrompt, "user")

NoDocumentsNever(documents) == FALSE

\* not retrieved_documents or len(retrieved_documents) == 0
NoDocuments(documents) == documents = <<>>

\* generate_answer, the same statements in the three strategy classes
GenerateAnswer ==
    /\ op = "init"
    /\ op' = "generate_answer"
    /\ IF NoDocuments(retrieved_documents)
       THEN /\ answer' = None
            /\ full_prompt' = <<>>
            /\ UNCHANGED generate_calls
       ELSE /\ generate_calls' =
                   Append(generate_calls,
                          [prompt       |-> FullPrompt(gen_query, retrieved_documents),
                           chat_history |-> <<SystemMessage>> \o chat_history])
            /\ answer' = llm_reply
            /\ full_prompt' = FullPrompt(gen_query, retrieved_documents)
    /\ UNCHANGED <<strategy, gen_query, retrieved_documents, chat_history, llm_reply>>
    /\ UNCHANGED <<mergeVars, fuseVars, rerankVars>>
    /\ UNCHANGED <<serviceVars, exchangeVars>>
    /\ UNCHANGED appVars

\* BasicRAGStrategy.generate_answer
BasicGenerateAnswer == strategy = "basic" /\ GenerateAnswer

\* FusionRAGStrategy.generate_answer
FusionGenerateAnswer == strategy = "fusion" /\ GenerateAnswer

\* ReRankRAGStrategy.generate_answer
ReRankGenerateAnswer == strategy = "rerank" /\ GenerateAnswer

Strategies == {"basic", "fusion", "rerank"}

Queries == {"q1", "q2"}

RetrievedTexts == {<<"a">>, <<" ", "b">>, <<"a", "b", "c">>}

RetrievedDocs == [text : RetrievedTexts, score : {1}]

Messages == {[role |-> "user", content |-> <<"q", "0">>], [role |-> "model", content |-> <<"r", "0">>]}

Replies == {None, "reply"}

StrategyIdle ==
    /\ strategy = "basic"
    /\ gen_query = "q1"
    /\ retrieved_documents = <<>>
    /\ chat_history = <<>>
    /\ llm_reply = None
    /\ answer = None
    /\ full_prompt = <<>>
    /\ generate_calls = <<>>

StrategyInit ==
    /\ strategy \in Strategies
    /\ gen_query \in Queries
    /\ retrieved_documents \in SeqsUpTo(RetrievedDocs, MaxRetrieved)
    /\ chat_history \in SeqsUpTo(Messages, MaxHistory)
    /\ llm_reply \in Replies
    /\ answer = None
    /\ full_prompt = <<>>
    /\ generate_calls = <<>>

(***************************************************************************)
(* RAGStrategyFactory.create_strategy.  A strategy object is a record of   *)
(* its class and the constructor arguments that differ between classes;    *)
(* kwargs is a function from keyword names to values.                      *)
(***************************************************************************)
DefaultNumQueries == 3

DefaultMultiplier == 3

NoKwargs == [name \in {} |-> 0]

NoStrategy == [class |-> "NoneType"]

BasicRAGStrategy == [class |-> "BasicRAGStrategy"]

FusionRAGStrategy(nq) == [class |-> "FusionRAGStrategy", num_queries |-> nq]

ReRankRAGStrategy(m) == [class |-> "ReRankRAGStrategy", initial_retrieve_multiplier |-> m]

\* an unsupported type gives None, as the docstring has it
create_strategy_or_none(type, kwargs) ==
    IF type = "basic" THEN BasicRAGStrategy
    ELSE IF type = "fusion"
    THEN FusionRAGStrategy(IF "num_queries" \in DOMAIN kwargs
                           THEN kwargs.num_queries ELSE DefaultNumQueries)
    ELSE IF type = "rerank"
    THEN ReRankRAGStrategy(IF "initial_retrieve_multiplier" \in DOMAIN kwargs
                           THEN kwargs.initial_retrieve_multiplier ELSE DefaultMultiplier)
    ELSE NoStrategy

create_strategy(type, kwargs) ==
    IF type = "basic" THEN BasicRAGStrategy
    ELSE IF type = "fusion"
    THEN FusionRAGStrategy(IF "num_queries" \in DOMAIN kwargs
                           THEN kwargs.num_queries ELSE DefaultNumQueries)
    ELSE IF type = "rerank"
    THEN ReRankRAGStrategy(IF "initial_retrieve_multiplier" \in DOMAIN kwargs
                           THEN kwargs.initial_retrieve_multiplier ELSE DefaultMultiplier)
    ELSE BasicRAGStrategy

get_strategy_name(s) ==
    CASE s.class = "BasicRAGStrategy"  -> "Basic RAG"
      [] s.class = "FusionRAGStrategy" -> "Fusion RAG (Query Expansion + RRF)"
      [] s.class = "ReRankRAGStrategy" -> "ReRank RAG (Two-Stage Retrieval)"

(***************************************************************************)
(* What a call of a collaborator gives back: a value of the kind named, or *)
(* None, or an exception.                                                  *)
(***************************************************************************)
Absent == [kind |-> "none"]

Raises == [kind |-> "raise"]

TextReply(t) == [kind |-> "text", text |-> t]

Vectors == [kind |-> "vectors"]

NoVectors == [kind |-> "empty"]

Hits(docs) == [kind |-> "docs", docs |-> docs]

\* not x, for what generate_text gives back: None and "" are falsy
NoReply(reply) == reply.kind = "none" \/ (reply.kind = "text" /\ reply.text = <<>>)

\* not query_vectors or len(query_vectors) == 0
NoQueryVectors(embedded) == embedded.kind \in {"none", "empty"}

\* not results: None and [] are falsy
NoResults(found) == found.kind = "none" \/ (found.kind = "docs" /\ found.docs = <<>>)

\* s[:n] of Python, for any int n
SliceTo(s, n) ==
    IF n >= 0 THEN Prefix(s, n)
    ELSE IF Len(s) + n <= 0 THEN <<>> ELSE SubSeq(s, 1, Len(s) + n)

\* the result of a retrieve_documents call: the documents returned, or an
\* exception leaving the call; searches are the search_by_vector calls made
Returned(docs, searches) == [raised |-> FALSE, docs |-> docs, searches |-> searches]

Raised(searches) == [raised |-> TRUE, docs |-> <<>>, searches |-> searches]

(***************************************************************************)
(* BasicRAGStrategy.retrieve_documents.                                    *)
(***************************************************************************)
BasicRetrieve(query, limit, embedded, found) ==
    IF embedded.kind = "raise" THEN Raised(<<>>)
    ELSE IF NoQueryVectors(embedded) THEN Returned(<<>>, <<>>)
    ELSE LET searches == <<[query |-> query, limit |-> limit]>>
         IN  IF found.kind = "raise" THEN Raised(searches)
             ELSE IF NoResults(found) THEN Returned(<<>>, searches)
             ELSE Returned(found.docs, searches)

(***************************************************************************)
(* FusionRAGStrategy._generate_query_variations.                           *)
(***************************************************************************)
MinVariantLength == 10

Digits == {"0", "1", "2", "3", "4", "5", "6", "7", "8", "9"}

NumberingChars == Digits \cup {".", "-", ")", " "}

\* str.split('\n')
RECURSIVE SplitFrom(_, _, _, _)
SplitFrom(s, start, i, out) ==
    IF i > Len(s) THEN Append(out, SubSeq(s, start, Len(s)))
    ELSE IF s[i] = "\n" THEN SplitFrom(s, i + 1, i + 1, Append(out, SubSeq(s, start, i - 1)))
    ELSE SplitFrom(s, start, i + 1, out)

\* str.lstrip(chars)
RECURSIVE LStripChars(_, _)
LStripChars(s, chars) ==
    IF s # <<>> /\ Head(s) \in chars THEN LStripChars(Tail(s), chars) ELSE s

\* [line.strip() for line in response.split('\n') if line.strip()]
StrippedLines(response) ==
    LET lines == SplitFrom(response, 1, 1, <<>>)
    IN  SelectSeq([i \in 1..Len(lines) |-> Strip(lines[i])], LAMBDA line : line # <<>>)

RECURSIVE AppendVariationsAtLeast(_, _)
AppendVariationsAtLeast(variations, lines) ==
    IF lines = <<>> THEN variations
    ELSE LET cleaned == Strip(LStripChars(Head(lines), NumberingChars))
         IN  AppendVariationsAtLeast(IF cleaned # <<>> /\ Len(cleaned) >= MinVariantLength
                                     THEN Append(variations, cleaned) ELSE variations,
                                     Tail(lines))

\* the loop over the lines: a cleaned line longer than 10 characters is appended
RECURSIVE AppendVariations(_, _)
AppendVariations(variations, lines) ==
    IF lines = <<>> THEN variations
    ELSE LET cleaned == Strip(LStripChars(Head(lines), NumberingChars))
         IN  AppendVariations(IF cleaned # <<>> /\ Len(cleaned) > MinVariantLength
                              THEN Append(variations, cleaned) ELSE variations,
                              Tail(lines))

\* every line of the response is read: the slice forgotten
GenerateQueryVariationsUnsliced(original_query, reply, num_queries) ==
    IF reply.kind = "raise" \/ NoReply(reply) THEN <<original_query>>
    ELSE AppendVariations(<<original_query>>, StrippedLines(reply.text))

_generate_query_variations(original_query, reply, num_queries) ==
    IF reply.kind = "raise" \/ NoReply(reply) THEN <<original_query>>
    ELSE AppendVariations(<<original_query>>,
                          SliceTo(StrippedLines(reply.text), num_queries - 1))

(***************************************************************************)
(* FusionRAGStrategy.retrieve_documents.  all_results, the dict from text  *)
(* to its list of (rank, score), is a sequence of [text, rankings] in      *)
(* insertion order.  A similarity score is a double.                       *)
(***************************************************************************)
HasText(all_results, text) == \E i \in 1..Len(all_results) : all_results[i].text = text

\* all_results[doc.text].append((rank + 1, doc.score)), the list created when missing
AddRanking(all_results, text, rank, score) ==
    IF HasText(all_results, text)
    THEN [i \in 1..Len(all_results) |->
             IF all_results[i].text = text
             THEN [text |-> text,
                   rankings |-> Append(all_results[i].rankings, [rank |-> rank, score |-> score])]
             ELSE all_results[i]]
    ELSE Append(all_results, [text |-> text, rankings |-> <<[rank |-> rank, score |-> score]>>])

\* for rank, doc in enumerate(results): rank counts from 0, rank + 1 is stored
RECURSIVE StoreResultsZeroBased(_, _, _)
StoreResultsZeroBased(all_results, results, rank) ==
    IF rank >= Len(results) THEN all_results
    ELSE StoreResultsZeroBased(AddRanking(all_results, results[rank + 1].text, rank,
                                          results[rank + 1].score),
                               results, rank + 1)

RECURSIVE StoreResults(_, _, _)
StoreResults(all_results, results, rank) ==
    IF rank >= Len(results) THEN all_results
    ELSE StoreResults(AddRanking(all_results, results[rank + 1].text, rank + 1,
                                 results[rank + 1].score),
                      results, rank + 1)

\* 1.0 / n for every denominator k + rank of the model, computed once
RankReciprocals == [n \in 1..(DefaultK + MaxHits) |-> FRecip(n)]

\* sum(1.0 / (k + rank) for rank, _ in rankings)
RECURSIVE RRFSum(_, _, _)
RRFSum(rankings, kk, acc) ==
    IF rankings = <<>> THEN acc
    ELSE RRFSum(Tail(rankings), kk, FAdd(acc, RankReciprocals[kk + Head(rankings).rank]))

\* sum(score for _, score in rankings)
RECURSIVE SimilaritySum(_, _)
SimilaritySum(rankings, acc) ==
    IF rankings = <<>> THEN acc
    ELSE SimilaritySum(Tail(rankings), FAdd(acc, Head(rankings).score))

\* (rrf_score + avg_similarity) / 2
FusionScore(rankings, kk) ==
    FHalf(FAdd(RRFSum(rankings, kk, FZero),
               FDivInt(SimilaritySum(rankings, FZero), Len(rankings))))

\* sorted(..., reverse=True) put a later item before its equals
RECURSIVE InsertFusedUnstable(_, _)
InsertFusedUnstable(sorted, item) ==
    IF sorted = <<>> THEN <<item>>
    ELSE IF FLess(item.score, Head(sorted).score)
         THEN <<Head(sorted)>> \o InsertFusedUnstable(Tail(sorted), item)
         ELSE <<item>> \o sorted

\* sorted(fusion_scores.items(), key=score, reverse=True) is stable
RECURSIVE InsertFused(_, _)
InsertFused(sorted, item) ==
    IF sorted = <<>> THEN <<item>>
    ELSE IF FLess(Head(sorted).score, item.score)
         THEN <<item>> \o sorted
         ELSE <<Head(sorted)>> \o InsertFused(Tail(sorted), item)

RECURSIVE SortFused(_, _)
SortFused(items, acc) ==
    IF items = <<>> THEN acc ELSE SortFused(Tail(items), InsertFused(acc, Head(items)))

\* the whole sorted list returned: [:limit] forgotten
ReciprocalRankFusionUncut(all_results, limit, kk) ==
    SortFused([i \in 1..Len(all_results) |->
                  [text  |-> all_results[i].text,
                   score |-> FusionScore(all_results[i].rankings, kk)]],
              <<>>)

_reciprocal_rank_fusion(all_results, limit, kk) ==
    SliceTo(SortFused([i \in 1..Len(all_results) |->
                          [text  |-> all_results[i].text,
                           score |-> FusionScore(all_results[i].rankings, kk)]],
                      <<>>),
            limit)

\* a variant without query vectors is searched all the same: the continue forgotten
SkipVariantNever(embedded) == FALSE

\* if not query_vectors or len(query_vectors) == 0: continue
SkipVariant(embedded) == NoQueryVectors(embedded)

\* the loop over the query variations, from variation idx on; embeds[idx] and
\* finds[idx] are what embed_text and search_by_vector give back for it
RECURSIVE SearchVariations(_, _, _, _, _, _, _)
SearchVariations(variations, idx, limit, embeds, finds, all_results, searches) ==
    IF idx > Len(variations) THEN [raised |-> FALSE, all_results |-> all_results,
                                   searches |-> searches]
    ELSE IF embeds[idx].kind = "raise"
    THEN [raised |-> TRUE, all_results |-> all_results, searches |-> searches]
    ELSE IF SkipVariant(embeds[idx])
    THEN SearchVariations(variations, idx + 1, limit, embeds, finds, all_results, searches)
    ELSE LET called == Append(searches, [query |-> variations[idx], limit |-> limit * 2])
         IN  \* enumerate(None) raises TypeError
             IF finds[idx].kind \in {"raise", "none"}
             THEN [raised |-> TRUE, all_results |-> all_results, searches |-> called]
             ELSE SearchVariations(variations, idx + 1, limit, embeds, finds,
                                   StoreResults(all_results, finds[idx].docs, 0), called)

FusionRetrieve(query, limit, num_queries, reply, embeds, finds) ==
    LET variations == _generate_query_variations(query, reply, num_queries)
        searched   == SearchVariations(variations, 1, limit, embeds, finds, <<>>, <<>>)
    IN  IF searched.raised THEN Raised(searched.searches)
        ELSE Returned(_reciprocal_rank_fusion(searched.all_results, limit, DefaultK),
                      searched.searches)

(***************************************************************************)
(* ReRankRAGStrategy: _parse_ranking, _rerank_documents, retrieve_documents *)
(***************************************************************************)
DigitValue ==
    [c \in Digits |->
        CASE c = "0" -> 0 [] c = "1" -> 1 [] c = "2" -> 2 [] c = "3" -> 3 [] c = "4" -> 4
          [] c = "5" -> 5 [] c = "6" -> 6 [] c = "7" -> 7 [] c = "8" -> 8 [] c = "9" -> 9]

\* re.findall(r'\d+', response): the maximal runs of digits, left to right
RECURSIVE FindNumbers(_, _, _)
FindNumbers(s, cur, out) ==
    IF s = <<>> THEN (IF cur = <<>> THEN out ELSE Append(out, cur))
    ELSE IF Head(s) \in Digits THEN FindNumbers(Tail(s), Append(cur, Head(s)), out)
    ELSE IF cur = <<>> THEN FindNumbers(Tail(s), <<>>, out)
    ELSE FindNumbers(Tail(s), <<>>, Append(out, cur))

\* int(n) of a run of digits
RECURSIVE IntOf(_, _)
IntOf(digits, acc) ==
    IF digits = <<>> THEN acc ELSE IntOf(Tail(digits), 10 * acc + DigitValue[Head(digits)])

\* [i for i in range(num_docs) if i not in ranking], from i on
RECURSIVE Remaining(_, _, _)
Remaining(i, num_docs, ranking) ==
    IF i >= num_docs THEN <<>>
    ELSE (IF \E j \in 1..Len(ranking) : ranking[j] = i THEN <<>> ELSE <<i>>)
         \o Remaining(i + 1, num_docs, ranking)

\* the numbers are taken as zero-based: the - 1 forgotten
ParseRankingOneBased(response, num_docs) ==
    LET numbers == FindNumbers(response, <<>>, <<>>)
        ranking == [i \in 1..Len(numbers) |-> IntOf(numbers[i], 0)]
        valid   == SelectSeq(ranking, LAMBDA idx : 0 <= idx /\ idx < num_docs)
    IN  valid \o Remaining(0, num_docs, valid)

_parse_ranking(response, num_docs) ==
    LET numbers == FindNumbers(response, <<>>, <<>>)
        ranking == [i \in 1..Len(numbers) |-> IntOf(numbers[i], 0) - 1]
        valid   == SelectSeq(ranking, LAMBDA idx : 0 <= idx /\ idx < num_docs)
    IN  valid \o Remaining(0, num_docs, valid)

\* the loop over ranking[:top_k]: new_score = 1.0 - (len(reranked) / top_k)
RECURSIVE Reorder(_, _, _, _)
Reorder(ranking, documents, top_k, redone) ==
    IF ranking = <<>> THEN redone
    ELSE Reorder(Tail(ranking), documents, top_k,
                 IF 0 <= Head(ranking) /\ Head(ranking) < Len(documents)
                 THEN Append(redone,
                             [text  |-> documents[Head(ranking) + 1].text,
                              score |-> FOneMinus(FDivInt(FromInt(Len(redone)), top_k))])
                 ELSE redone)

\* a reply of None is parsed as a ranking: the fallback forgotten
RerankDocumentsNoFallback(documents, reply, top_k) ==
    Reorder(SliceTo(_parse_ranking(IF reply.kind = "text" THEN reply.text ELSE <<>>,
                                   Len(documents)), top_k),
            documents, top_k, <<>>)

_rerank_documents(documents, reply, top_k) ==
    IF reply.kind = "raise" \/ NoReply(reply) THEN SliceTo(documents, top_k)
    ELSE LET ranking  == _parse_ranking(reply.text, Len(documents))
             redone == Reorder(SliceTo(ranking, top_k), documents, top_k, <<>>)
         IN  IF redone # <<>> THEN redone ELSE SliceTo(documents, top_k)

ReRankRetrieve(query, limit, multiplier, embedded, found, reply) ==
    IF embedded.kind = "raise" THEN Raised(<<>>)
    ELSE IF NoQueryVectors(embedded) THEN Returned(<<>>, <<>>)
    ELSE LET searches == <<[query |-> query, limit |-> limit * multiplier]>>
         IN  IF found.kind = "raise" THEN Raised(searches)
             ELSE IF NoResults(found) THEN Returned(<<>>, searches)
             ELSE Returned(_rerank_documents(found.docs, reply, limit), searches)

(***************************************************************************)
(* DatabaseChatMemory.  The chat_messages table is the sequence of its     *)
(* rows in created_at order; db_up is FALSE when the database call raises, *)
(* which each method catches.                                              *)
(***************************************************************************)
SessionRows(rows, session_id, project_id) ==
    SelectSeq(rows, LAMBDA row : row.session_id = session_id /\ row.project_id = project_id)

\* all_messages[-limit:] for 1 <= limit < len(all_messages)
LastMessages(all_messages, limit) ==
    SubSeq(all_messages, Len(all_messages) - limit + 1, Len(all_messages))

\* get_messages(session_id, project_id, limit): `if limit:` is false for 0
get_messages(rows, session_id, project_id, limit, db_up) ==
    IF ~db_up THEN <<>>
    ELSE LET all_messages == SessionRows(rows, session_id, project_id)
             messages     == IF limit # 0
                             THEN (IF Len(all_messages) > limit
                                   THEN LastMessages(all_messages, limit)
                                   ELSE all_messages)
                             ELSE all_messages
         IN  [i \in 1..Len(messages) |->
                 [role |-> messages[i].role, content |-> messages[i].content]]

\* add_message(session_id, role, content, project_id): the table afterwards
add_message(rows, session_id, role, content, project_id, db_up) ==
    IF db_up
    THEN Append(rows, [session_id |-> session_id, project_id |-> project_id,
                       role |-> role, content |-> content])
    ELSE rows

\* clear_session(session_id, project_id): the table afterwards
clear_session(rows, session_id, project_id, db_up) ==
    IF db_up
    THEN SelectSeq(rows, LAMBDA row : ~(row.session_id = session_id
                                        /\ row.project_id = project_id))
    ELSE rows

(***************************************************************************)
(* GeminiProvider.generate_text.  api is what generate_content does: it    *)
(* raises, or gives a response without candidates (with or without        *)
(* prompt_feedback), or one whose first candidate finished for SAFETY, or  *)
(* one with text, or one without a text attribute.                         *)
(***************************************************************************)
\* "Error: Your input was blocked by safety filters."
InputBlockedMessage ==
    <<"E", "r", "r", "o", "r", ":", " ", "Y", "o", "u", "r", " ", "i", "n",
      "p", "u", "t", " ", "w", "a", "s", " ", "b", "l", "o", "c", "k", "e",
      "d", " ", "b", "y", " ", "s", "a", "f", "e", "t", "y", " ", "f", "i",
      "l", "t", "e", "r", "s", ".">>

\* "Error: Generated content was blocked by safety filters. Please rephrase."
ContentBlockedMessage ==
    <<"E", "r", "r", "o", "r", ":", " ", "G", "e", "n", "e", "r", "a", "t",
      "e", "d", " ", "c", "o", "n", "t", "e", "n", "t", " ", "w", "a", "s",
      " ", "b", "l", "o", "c", "k", "e", "d", " ", "b", "y", " ", "s", "a",
      "f", "e", "t", "y", " ", "f", "i", "l", "t", "e", "r", "s", ".", " ",
      "P", "l", "e", "a", "s", "e", " ", "r", "e", "p", "h", "r", "a", "s",
      "e", ".">>

RecentMessages == 4

\* chat_history[-4:]
LastOf(history, n) == IF Len(history) > n THEN SubSeq(history, Len(history) - n + 1, Len(history)) ELSE history

\* the contents sent to generate_content: the recent messages that have
\* content, then the prompt as a user part
Conversation(prompt, history) ==
    LET recent == SelectSeq(LastOf(history, RecentMessages),
                            LAMBDA message : message.content # <<>>)
    IN  Append([i \in 1..Len(recent) |->
                   [role |-> recent[i].role, parts |-> <<recent[i].content>>]],
               [role |-> "user", parts |-> <<prompt>>])

\* a safety rejection gives None
GenerateTextAbsentOnSafety(model_id, prompt, history, api) ==
    IF model_id = None THEN [reply |-> Absent, sent |-> <<>>]
    ELSE [reply |-> IF api.kind = "text" THEN TextReply(api.text) ELSE Absent,
          sent  |-> Conversation(prompt, history)]

\* generate_text(prompt, chat_history): what it returns, and what it sent
generate_text(model_id, prompt, history, api) ==
    IF model_id = None THEN [reply |-> Absent, sent |-> <<>>]
    ELSE [reply |-> CASE api.kind = "exception"     -> Absent
                      [] api.kind = "blocked"       -> TextReply(InputBlockedMessage)
                      [] api.kind = "no_candidates" -> Absent
                      [] api.kind = "safety"        -> TextReply(ContentBlockedMessage)
                      [] api.kind = "text"          -> TextReply(api.text)
                      [] api.kind = "no_text"       -> Absent,
          sent  |-> Conversation(prompt, history)]

\* generate_answer of a strategy, with GeminiProvider as generation_client
GenerateAnswerOf(query, documents, history, model_id, api) ==
    IF NoDocuments(documents) THEN [answer |-> Absent, full_prompt |-> <<>>, calls |-> <<>>]
    ELSE LET prompt == FullPrompt(query, documents)
             final  == <<SystemMessage>> \o history
             out    == generate_text(model_id, prompt, final, api)
         IN  [answer |-> out.reply, full_prompt |-> prompt,
              calls |-> <<[prompt |-> prompt, chat_history |-> final, sent |-> out.sent]>>]

(***************************************************************************)
(* Inputs of the strategy factory.                                         *)
(***************************************************************************)
RagTypes == {"basic", "fusion", "rerank", "BASIC", "hyde", "", None}

Kwargs ==
    {NoKwargs}
        \cup {[num_queries |-> n] : n \in 1..MaxNumQueries}
        \cup {[initial_retrieve_multiplier |-> m] : m \in 1..MaxMultiplier}
        \cup {[num_queries |-> n, initial_retrieve_multiplier |-> m] :
                  n \in 1..MaxNumQueries, m \in 1..MaxMultiplier}

FactoryIdle ==
    /\ rag_type = "basic"
    /\ factory_kwargs = NoKwargs
    /\ created = NoStrategy

FactoryInit ==
    /\ rag_type \in RagTypes
    /\ factory_kwargs \in Kwargs
    /\ created = NoStrategy

\* RAGStrategyFactory.create_strategy(rag_type, **kwargs)
CreateStrategy ==
    /\ op = "init"
    /\ op' = "create_strategy"
    /\ created' = create_strategy(rag_type, factory_kwargs)
    /\ UNCHANGED <<rag_type, factory_kwargs>>
    /\ UNCHANGED <<mergeVars, fuseVars, rerankVars, strategyVars, exchangeVars>>
    /\ UNCHANGED <<variationVars, parseVars, retrieveVars>>
    /\ UNCHANGED appVars

(***************************************************************************)
(* Inputs of the query expansion: a response is lines joined by "\n".      *)
(***************************************************************************)
TenChars == <<"a", "b", "c", "d", "e", "f", "g", "h", "i", "j">>

ElevenChars == TenChars \o <<"k">>

ResponseLines ==
    {<<>>, <<" ">>, <<"-", " ", "x", "y">>, <<"1", ".", " ">> \o TenChars,
     <<"2", ")", " ">> \o ElevenChars, ElevenChars \o <<" ">>}

RECURSIVE JoinLines(_)
JoinLines(lines) ==
    IF lines = <<>> THEN <<>>
    ELSE IF Len(lines) = 1 THEN Head(lines)
    ELSE Head(lines) \o <<"\n">> \o JoinLines(Tail(lines))

Responses == {JoinLines(lines) : lines \in SeqsUpTo(ResponseLines, MaxResponseLines)}

OriginalQueries == {<<"q">>, <<"w", "h", "y">>}

VariationIdle ==
    /\ variation_query = <<"q">>
    /\ variation_reply = Absent
    /\ fusion_num_queries = DefaultNumQueries
    /\ query_variations = <<>>

VariationInit ==
    /\ variation_query \in OriginalQueries
    /\ variation_reply \in {Absent, Raises} \cup {TextReply(r) : r \in Responses}
    /\ fusion_num_queries \in 0..MaxNumQueries
    /\ query_variations = <<>>

\* FusionRAGStrategy._generate_query_variations(original_query)
GenerateQueryVariations ==
    /\ op = "init"
    /\ op' = "generate_query_variations"
    /\ query_variations' = _generate_query_variations(variation_query, variation_reply, fusion_num_queries)
    /\ UNCHANGED <<variation_query, variation_reply, fusion_num_queries>>
    /\ UNCHANGED <<mergeVars, fuseVars, rerankVars, strategyVars, exchangeVars>>
    /\ UNCHANGED <<factoryVars, parseVars, retrieveVars>>
    /\ UNCHANGED appVars

(***************************************************************************)
(* Inputs of the ranking parser: every response of at most                 *)
(* MaxResponseLength characters over a small alphabet.                     *)
(***************************************************************************)
ResponseChars == {"0", "1", "2", "3", ",", "x"}

ParseIdle ==
    /\ parse_response = <<>>
    /\ parse_num_docs = 0
    /\ parsed_ranking = <<>>

ParseInit ==
    /\ parse_response \in SeqsUpTo(ResponseChars, MaxResponseLength)
    /\ parse_num_docs \in 0..MaxDocs
    /\ parsed_ranking = <<>>

\* ReRankRAGStrategy._parse_ranking(response, num_docs)
ParseRanking ==
    /\ op = "init"
    /\ op' = "parse_ranking"
    /\ parsed_ranking' = _parse_ranking(parse_response, parse_num_docs)
    /\ UNCHANGED <<parse_response, parse_num_docs>>
    /\ UNCHANGED <<mergeVars, fuseVars, rerankVars, strategyVars, exchangeVars>>
    /\ UNCHANGED <<factoryVars, variationVars, retrieveVars>>
    /\ UNCHANGED appVars

(***************************************************************************)
(* Inputs of retrieve_documents.  search_by_vector gives back at most the  *)
(* number of documents asked for, a text possibly more than once, or None; *)
(* embed_text gives back a list of vectors, possibly empty, or None;       *)
(* either may raise.                                                       *)
(***************************************************************************)
HalfScore == FDivInt(FromInt(1), 2)

QuarterScore == FDivInt(FromInt(1), 4)

FoundDocs ==
    {[text |-> <<"a">>, score |-> HalfScore], [text |-> <<"b">>, score |-> HalfScore],
     [text |-> <<"b">>, score |-> QuarterScore], [text |-> <<"c">>, score |-> QuarterScore]}

search_by_vector(limit) ==
    {Absent, Raises}
        \cup {Hits(docs) : docs \in SeqsUpTo(FoundDocs, Min(limit, MaxHits))}

embed_text == {Vectors, NoVectors, Absent, Raises}

RetrieveReplies ==
    {Absent, Raises, TextReply(<<"2", ")", " ">> \o ElevenChars), TextReply(<<"2", ",", "1">>),
     TextReply(<<"1", ",", "1">>)}

RetrieveStrategies ==
    {BasicRAGStrategy}
        \cup {FusionRAGStrategy(n) : n \in 1..MaxNumQueries}
        \cup {ReRankRAGStrategy(m) : m \in 1..MaxMultiplier}

NotRetrieved == [raised |-> FALSE, docs |-> <<>>, searches |-> <<>>]

RetrieveIdle ==
    /\ ret_strategy = BasicRAGStrategy
    /\ ret_limit = 1
    /\ ret_reply = Absent
    /\ ret_embeds = <<>>
    /\ ret_finds = <<>>
    /\ ret_result = NotRetrieved

RetrieveInit ==
    /\ ret_strategy \in RetrieveStrategies
    /\ ret_limit \in 1..MaxLimit
    /\ ret_reply = Absent
    /\ ret_embeds = <<>>
    /\ ret_finds = <<>>
    /\ ret_result = NotRetrieved

RetrieveQuery == <<"w", "h", "y">>

\* BasicRAGStrategy.retrieve_documents(query, project, limit)
BasicRetrieveDocuments ==
    /\ op = "init"
    /\ ret_strategy.class = "BasicRAGStrategy"
    /\ \E embedded \in embed_text, found \in search_by_vector(ret_limit) :
           /\ ret_embeds' = <<embedded>>
           /\ ret_finds' = <<found>>
           /\ ret_result' = BasicRetrieve(RetrieveQuery, ret_limit, embedded, found)
    /\ op' = "retrieve_documents"
    /\ UNCHANGED <<ret_strategy, ret_limit, ret_reply>>
    /\ UNCHANGED <<mergeVars, fuseVars, rerankVars, strategyVars, exchangeVars>>
    /\ UNCHANGED <<factoryVars, variationVars, parseVars>>
    /\ UNCHANGED appVars

\* FusionRAGStrategy.retrieve_documents(query, project, limit)
FusionRetrieveDocuments ==
    /\ op = "init"
    /\ ret_strategy.class = "FusionRAGStrategy"
    /\ \E reply \in RetrieveReplies :
           LET n == Len(_generate_query_variations(RetrieveQuery, reply,
                                                   ret_strategy.num_queries))
           IN  \E embeds \in [1..n -> embed_text],
                  finds \in [1..n -> search_by_vector(ret_limit * 2)] :
                   /\ ret_reply' = reply
                   /\ ret_embeds' = embeds
                   /\ ret_finds' = finds
                   /\ ret_result' = FusionRetrieve(RetrieveQuery, ret_limit,
                                                   ret_strategy.num_queries,
                                                   reply, embeds, finds)
    /\ op' = "retrieve_documents"
    /\ UNCHANGED <<ret_strategy, ret_limit>>
    /\ UNCHANGED <<mergeVars, fuseVars, rerankVars, strategyVars, exchangeVars>>
    /\ UNCHANGED <<factoryVars, variationVars, parseVars>>
    /\ UNCHANGED appVars

\* ReRankRAGStrategy.retrieve_documents(query, project, limit)
ReRankRetrieveDocuments ==
    /\ op = "init"
    /\ ret_strategy.class = "ReRankRAGStrategy"
    /\ \E embedded \in embed_text, reply \in RetrieveReplies,
          found \in search_by_vector(ret_limit * ret_strategy.initial_retrieve_multiplier) :
           /\ ret_reply' = reply
           /\ ret_embeds' = <<embedded>>
           /\ ret_finds' = <<found>>
           /\ ret_result' = ReRankRetrieve(RetrieveQuery, ret_limit,
                                           ret_strategy.initial_retrieve_multiplier,
                                           embedded, found, reply)
    /\ op' = "retrieve_documents"
    /\ UNCHANGED <<ret_strategy, ret_limit>>
    /\ UNCHANGED <<mergeVars, fuseVars, rerankVars, strategyVars, exchangeVars>>
    /\ UNCHANGED <<factoryVars, variationVars, parseVars>>
    /\ UNCHANGED appVars

(***************************************************************************)
(* Inputs of DatabaseChatMemory: sessions, projects and the messages of    *)
(* an exchange.                                                            *)
(***************************************************************************)
SessionIds == {"s1", "s2"}

ProjectIds == {1, 2}

UserRole == "user"

\* GeminiEnums.ASSISTANT.value
AssistantRole == "model"

StoredMessages ==
    {[role |-> UserRole, content |-> <<"h", "i">>], [role |-> AssistantRole, content |-> <<"y", "o">>]}

HistoryLimits == 0..MaxHistoryLimit

MemoryIdle ==
    /\ chat_rows = <<>>
    /\ mem_session = "s1"
    /\ mem_project = 1
    /\ mem_limit = 0
    /\ mem_db_up = TRUE
    /\ mem_messages = <<>>

\* await chat_memory.add_message(session_id, role, content, project_id)
AddMessage ==
    /\ Len(chat_rows) < MaxStored
    /\ \E s \in SessionIds, p \in ProjectIds, m \in StoredMessages, up \in BOOLEAN :
           /\ chat_rows' = add_message(chat_rows, s, m.role, m.content, p, up)
           /\ mem_session' = s
           /\ mem_project' = p
           /\ mem_db_up' = up
    /\ op' = "add_message"
    /\ mem_limit' = 0
    /\ mem_messages' = <<>>
    /\ UNCHANGED <<mergeVars, fuseVars, rerankVars, strategyVars, serviceVars, answerVars>>
    /\ UNCHANGED arrivalVars
    /\ UNCHANGED appVars

\* await chat_memory.get_messages(session_id, project_id, limit)
GetMessages ==
    /\ \E s \in SessionIds, p \in ProjectIds, l \in HistoryLimits, up \in BOOLEAN :
           /\ mem_messages' = get_messages(chat_rows, s, p, l, up)
           /\ mem_session' = s
           /\ mem_project' = p
           /\ mem_limit' = l
           /\ mem_db_up' = up
    /\ op' = "get_messages"
    /\ UNCHANGED chat_rows
    /\ UNCHANGED <<mergeVars, fuseVars, rerankVars, strategyVars, serviceVars, answerVars>>
    /\ UNCHANGED arrivalVars
    /\ UNCHANGED appVars

\* await chat_memory.clear_session(session_id, project_id)
ClearSession ==
    /\ \E s \in SessionIds, p \in ProjectIds, up \in BOOLEAN :
           /\ chat_rows' = clear_session(chat_rows, s, p, up)
           /\ mem_session' = s
           /\ mem_project' = p
           /\ mem_db_up' = up
    /\ op' = "clear_session"
    /\ mem_limit' = 0
    /\ mem_messages' = <<>>
    /\ UNCHANGED <<mergeVars, fuseVars, rerankVars, strategyVars, serviceVars, answerVars>>
    /\ UNCHANGED arrivalVars
    /\ UNCHANGED appVars

(***************************************************************************)
(* NLPController.answer_rag_question(project, query, session_id, limit,    *)
(* rag_type, chat_history_limit), one action per await.  The strategies    *)
(* are the factory's, with GeminiProvider as their generation client.      *)
(***************************************************************************)
AnswerSession == "s1"

AnswerProject == 1

GeminiModelIds == {None, "gemini-pro"}

\* what generate_content does
GeminiOutcomes ==
    {[kind |-> "exception"], [kind |-> "blocked"], [kind |-> "no_candidates"],
     [kind |-> "safety"], [kind |-> "no_text"]}
        \cup {[kind |-> "text", text |-> t] :
                 t \in {<<>>, <<"o", "k">>, <<"2", ",", "1">>, ElevenChars}}

\* generate_text(prompt) as the strategies call it while retrieving: no chat history
GeminiReply(model_id, api) == generate_text(model_id, <<>>, <<>>, api).reply

AnswerEmbeds == {Vectors, NoVectors}

AnswerFinds(limit) ==
    {Absent, Raises}
        \cup {Hits(docs) : docs \in {d \in {<<>>, <<[text |-> <<"a">>, score |-> HalfScore]>>,
                                             <<[text |-> <<"b">>, score |-> QuarterScore],
                                               [text |-> <<"a">>, score |-> HalfScore]>>} :
                                        Len(d) <= limit}}

PriorRows ==
    {[session_id |-> AnswerSession, project_id |-> AnswerProject,
      role |-> UserRole, content |-> <<"h", "i">>],
     [session_id |-> AnswerSession, project_id |-> AnswerProject,
      role |-> AssistantRole, content |-> <<"y", "o">>],
     [session_id |-> "s2", project_id |-> AnswerProject,
      role |-> UserRole, content |-> <<"h", "i">>]}

NotCalled == [kind |-> "not_called"]

AnswerIdle ==
    /\ pc = "idle"
    /\ generation_model_id = "gemini-pro"
    /\ ans_rag_type = "basic"
    /\ ans_limit = 1
    /\ ans_history_limit = 0
    /\ ans_history = <<>>
    /\ ans_strategy = BasicRAGStrategy
    /\ ans_documents = <<>>
    /\ ans_answer = Absent
    /\ ans_prompt = <<>>
    /\ ans_api = NotCalled
    /\ ans_calls = <<>>

AnswerInit ==
    /\ pc = "start"
    /\ generation_model_id \in GeminiModelIds
    /\ ans_rag_type \in {"basic", "fusion", "rerank", "hyde"}
    /\ ans_limit \in 1..MaxLimit
    /\ ans_history_limit \in HistoryLimits
    /\ ans_history = <<>>
    /\ ans_strategy = BasicRAGStrategy
    /\ ans_documents = <<>>
    /\ ans_answer = Absent
    /\ ans_prompt = <<>>
    /\ ans_api = NotCalled
    /\ ans_calls = <<>>
    /\ chat_rows \in SeqsUpTo(PriorRows, MaxPrior)
    /\ mem_session = AnswerSession
    /\ mem_project = AnswerProject
    /\ mem_limit = 0
    /\ mem_db_up = TRUE
    /\ mem_messages = <<>>

AnswerUnchanged ==
    /\ UNCHANGED <<generation_model_id, ans_rag_type, ans_limit, ans_history_limit>>
    /\ UNCHANGED arrivalVars
    /\ UNCHANGED <<op, mergeVars, fuseVars, rerankVars, strategyVars, serviceVars>>
    /\ UNCHANGED appVars

\* steps 1 and 2: await chat_memory.get_messages, then create_strategy
AnswerGetMessages ==
    /\ pc = "start"
    /\ \E up \in BOOLEAN :
           /\ ans_history' = get_messages(chat_rows, AnswerSession, AnswerProject,
                                          ans_history_limit, up)
           /\ mem_messages' = get_messages(chat_rows, AnswerSession, AnswerProject,
                                           ans_history_limit, up)
           /\ mem_db_up' = up
    /\ mem_limit' = ans_history_limit
    /\ ans_strategy' = create_strategy(ans_rag_type, NoKwargs)
    /\ ans_calls' = Append(ans_calls, "get_messages")
    /\ pc' = "retrieve"
    /\ UNCHANGED <<chat_rows, mem_session, mem_project>>
    /\ UNCHANGED <<ans_documents, ans_answer, ans_prompt, ans_api>>
    /\ AnswerUnchanged

\* what retrieve_documents of the strategy can give for the limit
AnswerRetrievals(strat, limit, model_id) ==
    CASE strat.class = "BasicRAGStrategy" ->
             {BasicRetrieve(RetrieveQuery, limit, embedded, found) :
                  embedded \in AnswerEmbeds, found \in AnswerFinds(limit)}
      [] strat.class = "FusionRAGStrategy" ->
             UNION {LET reply == GeminiReply(model_id, api)
                        n     == Len(_generate_query_variations(RetrieveQuery, reply,
                                                                strat.num_queries))
                    IN  {FusionRetrieve(RetrieveQuery, limit, strat.num_queries,
                                        reply, embeds, finds) :
                             embeds \in [1..n -> AnswerEmbeds],
                             finds \in [1..n -> AnswerFinds(limit * 2)]} :
                    api \in GeminiOutcomes}
      [] strat.class = "ReRankRAGStrategy" ->
             {ReRankRetrieve(RetrieveQuery, limit, strat.initial_retrieve_multiplier,
                             embedded, found, GeminiReply(model_id, api)) :
                  embedded \in AnswerEmbeds,
                  found \in AnswerFinds(limit * strat.initial_retrieve_multiplier),
                  api \in GeminiOutcomes}

\* step 3: await strategy.retrieve_documents; nothing retrieved returns
\* (None, "", chat_history, strategy_name), an exception leaves the call
AnswerRetrieve ==
    /\ pc = "retrieve"
    /\ \E r \in AnswerRetrievals(ans_strategy, ans_limit, generation_model_id) :
           /\ ans_documents' = r.docs
           /\ pc' = IF r.raised THEN "raised"
                    ELSE IF NoDocuments(r.docs) THEN "done" ELSE "generate"
    /\ ans_calls' = Append(ans_calls, "retrieve_documents")
    /\ UNCHANGED <<memoryVars, ans_history, ans_strategy, ans_answer, ans_prompt, ans_api>>
    /\ AnswerUnchanged

\* step 4: await strategy.generate_answer; no answer returns
\* (None, full_prompt, chat_history, strategy_name)
AnswerGenerate ==
    /\ pc = "generate"
    /\ \E api \in GeminiOutcomes :
           LET out == GenerateAnswerOf(RetrieveQuery, ans_documents, ans_history,
                                       generation_model_id, api)
           IN  /\ ans_answer' = IF NoReply(out.answer) THEN Absent ELSE out.answer
               /\ ans_prompt' = out.full_prompt
               /\ ans_api' = IF out.calls = <<>> \/ generation_model_id = None
                             THEN NotCalled ELSE api
               /\ pc' = IF NoReply(out.answer) THEN "done" ELSE "save_user"
    /\ ans_calls' = Append(ans_calls, "generate_answer")
    /\ UNCHANGED <<memoryVars, ans_history, ans_strategy, ans_documents>>
    /\ AnswerUnchanged

\* the assistant answer saved first
AnswerSaveAssistantFirst ==
    /\ pc = "save_user"
    /\ \E up \in BOOLEAN :
           /\ chat_rows' = add_message(chat_rows, AnswerSession, AssistantRole,
                                       ans_answer.text, AnswerProject, up)
           /\ mem_db_up' = up
    /\ ans_calls' = Append(ans_calls, "add_message")
    /\ pc' = "save_assistant"
    /\ UNCHANGED <<mem_session, mem_project, mem_limit, mem_messages>>
    /\ UNCHANGED <<ans_history, ans_strategy, ans_documents, ans_answer, ans_prompt, ans_api>>
    /\ AnswerUnchanged

\* step 5, _save_conversation_to_memory: await add_message of the user query
AnswerSaveUser ==
    /\ pc = "save_user"
    /\ \E up \in BOOLEAN :
           /\ chat_rows' = add_message(chat_rows, AnswerSession, UserRole, RetrieveQuery,
                                       AnswerProject, up)
           /\ mem_db_up' = up
    /\ ans_calls' = Append(ans_calls, "add_message")
    /\ pc' = "save_assistant"
    /\ UNCHANGED <<mem_session, mem_project, mem_limit, mem_messages>>
    /\ UNCHANGED <<ans_history, ans_strategy, ans_documents, ans_answer, ans_prompt, ans_api>>
    /\ AnswerUnchanged

\* _save_conversation_to_memory: await add_message of the assistant answer
AnswerSaveAssistant ==
    /\ pc = "save_assistant"
    /\ \E up \in BOOLEAN :
           /\ chat_rows' = add_message(chat_rows, AnswerSession, AssistantRole,
                                       ans_answer.text, AnswerProject, up)
           /\ mem_db_up' = up
    /\ ans_calls' = Append(ans_calls, "add_message")
    /\ pc' = "done"
    /\ UNCHANGED <<mem_session, mem_project, mem_limit, mem_messages>>
    /\ UNCHANGED <<ans_history, ans_strategy, ans_documents, ans_answer, ans_prompt, ans_api>>
    /\ AnswerUnchanged

(***************************************************************************)
(* The same ranked lists fused in two orders of arrival, by                *)
(* FusionRetriever.fuse and by the loop and the fusion of                  *)
(* FusionRAGStrategy.retrieve_documents.                                   *)
(***************************************************************************)
ArrivalTexts == {<<"a">>, <<"b">>, <<"c">>}

\* the similarity score the vector index gives a text
SimilarityOf(text) == IF text = <<"c">> THEN QuarterScore ELSE HalfScore

\* the hits of one search: the texts of a ranked list with their scores
FoundOf(ranking) == [i \in 1..Len(ranking) |-> [text |-> ranking[i], score |-> SimilarityOf(ranking[i])]]

ArrivalLists == {r \in SeqsUpTo(ArrivalTexts, MaxHits) : \A i, j \in 1..Len(r) : i # j => r[i] # r[j]}

ArrivalOrders(n) == {o \in [1..n -> 1..n] : \A i, j \in 1..n : i # j => o[i] # o[j]}

Reordered(lists, order) == [i \in 1..Len(lists) |-> lists[order[i]]]

\* the rankings of one list overwrite those of the lists before it
RECURSIVE StoreAllLastOnly(_, _)
StoreAllLastOnly(all_results, lists) ==
    IF lists = <<>> THEN all_results
    ELSE StoreAllLastOnly(StoreResults(SelectSeq(all_results,
                                                 LAMBDA r : \A i \in 1..Len(Head(lists)) :
                                                                Head(lists)[i] # r.text),
                                       FoundOf(Head(lists)), 0),
                          Tail(lists))

\* the loop over the query variations when every search gives its hits
RECURSIVE StoreAll(_, _)
StoreAll(all_results, lists) ==
    IF lists = <<>> THEN all_results
    ELSE StoreAll(StoreResults(all_results, FoundOf(Head(lists)), 0), Tail(lists))

ArrivalIdle ==
    /\ arrivals = <<>>
    /\ arrival_order = <<>>
    /\ arr_k = DefaultK
    /\ arr_limit = 1
    /\ arr_fused = <<>>
    /\ arr_fused_reordered = <<>>

ArrivalInit ==
    /\ arrivals \in SeqsUpTo(ArrivalLists, MaxArrivals)
    /\ arrival_order \in ArrivalOrders(Len(arrivals))
    /\ arr_k \in Ks
    /\ arr_limit \in 1..MaxLimit
    /\ arr_fused = <<>>
    /\ arr_fused_reordered = <<>>

\* FusionRetriever(k).fuse(results, top_k), for both orders of arrival
FuseArrivals ==
    /\ op = "init"
    /\ op' = "fuse"
    /\ arr_fused' = FuseOf(arr_k, arrivals, arr_limit)
    /\ arr_fused_reordered' = FuseOf(arr_k, Reordered(arrivals, arrival_order), arr_limit)
    /\ UNCHANGED <<arrivals, arrival_order, arr_k, arr_limit>>
    /\ UNCHANGED <<mergeVars, fuseVars, rerankVars, strategyVars, serviceVars>>
    /\ UNCHANGED <<memoryVars, answerVars>>
    /\ UNCHANGED appVars

\* FusionRAGStrategy.retrieve_documents from the search results on, for both
\* orders of arrival
FusionArrivals ==
    /\ op = "init"
    /\ op' = "retrieve_documents"
    /\ arr_fused' = _reciprocal_rank_fusion(StoreAll(<<>>, arrivals), arr_limit, DefaultK)
    /\ arr_fused_reordered' =
           _reciprocal_rank_fusion(StoreAll(<<>>, Reordered(arrivals, arrival_order)),
                                   arr_limit, DefaultK)
    /\ UNCHANGED <<arrivals, arrival_order, arr_k, arr_limit>>
    /\ UNCHANGED <<mergeVars, fuseVars, rerankVars, strategyVars, serviceVars>>
    /\ UNCHANGED <<memoryVars, answerVars>>
    /\ UNCHANGED appVars

(***************************************************************************)
(* The sliding window of exchanges: a ConversationBufferMemory of any      *)
(* window size from 0, and add_memory / add_exchange and clear calls.      *)
(***************************************************************************)
BufferInputs == {"q1", "q2"}

BufferOutputs == {"a1", "a2"}

BufferIdle ==
    /\ window_size = 0
    /\ exchanges = <<>>
    /\ buffer_added = <<>>

BufferInit ==
    /\ window_size \in 0..MaxWindowSize
    /\ exchanges = <<>>
    /\ buffer_added = <<>>

BufferUnchanged ==
    /\ UNCHANGED window_size
    /\ UNCHANGED interactiveVars
    /\ UNCHANGED concurrentVars
    /\ UNCHANGED <<mergeVars, fuseVars, rerankVars, strategyVars, serviceVars, exchangeVars>>

\* ConversationBufferMemory.add_memory, and add_exchange which calls it
AddMemory ==
    /\ Len(buffer_added) < MaxAdded
    /\ \E user_input \in BufferInputs, ai_output \in BufferOutputs :
        /\ exchanges' = add_memory(exchanges, window_size, user_input, ai_output)
        /\ buffer_added' = Append(buffer_added, <<user_input, ai_output>>)
    /\ op' = "add_memory"
    /\ BufferUnchanged

\* ConversationBufferMemory.clear, and clear_memory which calls it
Clear ==
    /\ exchanges' = <<>>
    /\ buffer_added' = <<>>
    /\ op' = "clear"
    /\ BufferUnchanged

(***************************************************************************)
(* generate_answer of a strategy with GeminiProvider as generation client: *)
(* chat histories of up to MaxConversation messages, and what the provider *)
(* sends to the model.                                                     *)
(***************************************************************************)
ConversationInit ==
    /\ strategy \in Strategies
    /\ gen_query = "q1"
    /\ retrieved_documents \in SeqsUpTo(RetrievedDocs, 1)
    /\ chat_history \in SeqsUpTo(Messages, MaxConversation)
    /\ llm_reply = None
    /\ answer = None
    /\ full_prompt = <<>>
    /\ generate_calls = <<>>
    /\ generation_model_id \in GeminiModelIds
    /\ pc = "idle"
    /\ ans_rag_type = "basic"
    /\ ans_limit = 1
    /\ ans_history_limit = 0
    /\ ans_history = <<>>
    /\ ans_strategy = BasicRAGStrategy
    /\ ans_documents = <<>>
    /\ ans_answer = Absent
    /\ ans_prompt = <<>>
    /\ ans_api = NotCalled
    /\ ans_calls = <<>>

\* BasicRAGStrategy / FusionRAGStrategy / ReRankRAGStrategy.generate_answer calling
\* GeminiProvider.generate_text
GeminiGenerateAnswer ==
    /\ op = "init"
    /\ op' = "generate_answer"
    /\ \E api \in GeminiOutcomes :
           LET out == GenerateAnswerOf(gen_query, retrieved_documents, chat_history,
                                       generation_model_id, api)
           IN  /\ generate_calls' = out.calls
               /\ answer' = out.answer
               /\ full_prompt' = out.full_prompt
               /\ llm_reply' = api
    /\ UNCHANGED <<strategy, gen_query, retrieved_documents, chat_history>>
    /\ UNCHANGED <<mergeVars, fuseVars, rerankVars, serviceVars>>
    /\ UNCHANGED <<memoryVars, answerVars, arrivalVars>>
    /\ UNCHANGED appVars

(***************************************************************************)
(* The interactive pipeline of app.py and main.py, from the retrieved      *)
(* texts to the call of the generator.                                     *)
(***************************************************************************)
FuseTopK == 10

RerankTopK == 5

PrefixSize == 5

\* f"[Conversation History]\n{memory_context}"
HistoryBlock(context) == [header |-> "[Conversation History]", memory |-> context]

\* [r for r in retrieval_results if r], memory first when there is any
RetrievalResults(context, rag, web) ==
    SelectSeq((IF context # "" THEN <<(<<context>>)>> ELSE <<>>) \o <<rag, web>>,
              LAMBDA r : r # <<>>)

ConcatenatedMemoryLast(context, rag, web) ==
    rag \o web \o (IF context # "" THEN <<context>> ELSE <<>>)

\* rag_texts + web_texts, with the memory context inserted at 0
Concatenated(context, rag, web) ==
    (IF context # "" THEN <<context>> ELSE <<>>) \o rag \o web

\* the fusion stage of app.py
CandidateTexts(fusing, context, rag, web) ==
    IF fusing THEN FuseOf(DefaultK, RetrievalResults(context, rag, web), FuseTopK)
    ELSE Concatenated(context, rag, web)

\* Reranker.rerank(prompt, texts, top_k=5), then [doc for doc, score in reranked]
RerankedTexts(rr, texts, sc) ==
    LET scored == IF RerankDisabled(rr.enabled, rr.model)
                  THEN PassThrough(texts, RerankTopK)
                  ELSE RerankedOf(texts, sc, RerankTopK)
    IN  [i \in 1..Len(scored) |-> scored[i].doc]

\* the list handed to answer_generation
ContextOf(context, texts) ==
    IF context # "" THEN <<HistoryBlock(context)>> \o texts ELSE texts

InteractiveTexts == <<"m", "a", "b", "c", "d", "e", "f">>

\* what CrossEncoder.predict may give: the same score for every text, or scores
\* rising or falling along InteractiveTexts
InteractiveScorers ==
    {[t \in {"m", "a", "b", "c", "d", "e", "f"} |-> 0],
     [t \in {"m", "a", "b", "c", "d", "e", "f"} |->
         CHOOSE i \in 1..Len(InteractiveTexts) : InteractiveTexts[i] = t],
     [t \in {"m", "a", "b", "c", "d", "e", "f"} |->
         0 - (CHOOSE i \in 1..Len(InteractiveTexts) : InteractiveTexts[i] = t)]}

\* reranker = NoReranker: the Reranker could not be constructed
NoReranker == [kind |-> "none"]

\* a Reranker whose model failed to load disables itself
Rerankers ==
    {[kind |-> "Reranker", enabled |-> FALSE, model |-> None],
     [kind |-> "Reranker", enabled |-> TRUE, model |-> "CrossEncoder"]}

InteractiveIdle ==
    /\ use_fusion = FALSE
    /\ use_reranking = FALSE
    /\ fusion_retriever = None
    /\ reranker = NoReranker
    /\ memory_context = ""
    /\ rag_texts = <<>>
    /\ web_texts = <<>>
    /\ candidate_texts = <<>>
    /\ retrieved_texts = <<>>
    /\ generation_context = <<>>

\* the "Enable Reranking" box is shown only when a reranker was loaded
InteractiveInit ==
    /\ use_fusion \in BOOLEAN
    /\ use_reranking \in BOOLEAN
    /\ fusion_retriever \in {None, "FusionRetriever"}
    /\ reranker \in {NoReranker} \cup Rerankers
    /\ use_reranking => reranker # NoReranker
    /\ memory_context \in {"", "m"}
    /\ rag_texts \in SeqsUpTo({"a", "b"}, MaxRankLen + 1)
    /\ web_texts \in {<<>>, <<"c">>, <<"a", "c">>, <<"c", "d", "e", "f">>}
    /\ candidate_texts = <<>>
    /\ retrieved_texts = <<>>
    /\ generation_context = <<>>

InteractiveUnchanged ==
    /\ UNCHANGED <<use_fusion, use_reranking, fusion_retriever, reranker, memory_context,
                   rag_texts, web_texts>>
    /\ UNCHANGED <<mergeVars, fuseVars, rerankVars, strategyVars, serviceVars, exchangeVars>>
    /\ UNCHANGED bufferVars
    /\ UNCHANGED concurrentVars

\* app.py: from the fusion stage to the call of answer_generation
AppAnswer ==
    /\ op = "init"
    /\ op' = "app_answer"
    /\ \E sc \in InteractiveScorers :
        LET fused_texts == CandidateTexts(use_fusion /\ fusion_retriever # None,
                                     memory_context, rag_texts, web_texts)
            ranked      == IF use_reranking /\ reranker # NoReranker /\ Len(fused_texts) > 0
                      THEN RerankedTexts(reranker, fused_texts, sc)
                      ELSE Prefix(fused_texts, PrefixSize)
        IN  /\ candidate_texts' = fused_texts
            /\ retrieved_texts' = ranked
            /\ generation_context' = ContextOf(memory_context, ranked)
    /\ InteractiveUnchanged

\* main.py: fusion always, reranking when a reranker was loaded
ConsoleAnswer ==
    /\ op = "init"
    /\ fusion_retriever # None
    /\ op' = "console_answer"
    /\ \E sc \in InteractiveScorers :
        LET fused_texts == CandidateTexts(TRUE, memory_context, rag_texts, web_texts)
            ranked      == IF reranker # NoReranker
                      THEN RerankedTexts(reranker, fused_texts, sc)
                      ELSE Prefix(fused_texts, PrefixSize)
        IN  /\ candidate_texts' = fused_texts
            /\ retrieved_texts' = ranked
            /\ generation_context' = ContextOf(memory_context, ranked)
    /\ InteractiveUnchanged

(***************************************************************************)
(* Two answer_rag_question calls on one session and project, run by the    *)
(* event loop: a call gives way at each await.                             *)
(***************************************************************************)
Calls == {1, 2}

DefaultHistoryLimit == 10

CallQuery(c) == IF c = 1 THEN <<"q", "1">> ELSE <<"q", "2">>

CallAnswers == {Absent, TextReply(<<"a">>)}

\* a whole exchange stored before the two calls
PriorExchange ==
    <<[session_id |-> AnswerSession, project_id |-> AnswerProject,
       role |-> UserRole, content |-> <<"h", "i">>],
      [session_id |-> AnswerSession, project_id |-> AnswerProject,
       role |-> AssistantRole, content |-> <<"y", "o">>]>>

ConversationMessagesAnswerFirst(user_query, assistant_answer) ==
    <<[role |-> AssistantRole, content |-> assistant_answer],
      [role |-> UserRole, content |-> user_query]>>

\* _save_conversation_to_memory: the messages it adds, in order
ConversationMessages(user_query, assistant_answer) ==
    <<[role |-> UserRole, content |-> user_query],
      [role |-> AssistantRole, content |-> assistant_answer]>>

ConcurrentIdle ==
    /\ call_pc = [c \in Calls |-> "idle"]
    /\ call_history = [c \in Calls |-> <<>>]
    /\ call_answer = [c \in Calls |-> Absent]
    /\ call_stored = [c \in Calls |-> <<>>]
    /\ row_call = <<>>
    /\ overlapped = FALSE

ConcurrentInit ==
    /\ call_pc = [c \in Calls |-> "start"]
    /\ call_history = [c \in Calls |-> <<>>]
    /\ call_answer = [c \in Calls |-> Absent]
    /\ call_stored = [c \in Calls |-> <<>>]
    /\ chat_rows \in {<<>>, PriorExchange}
    /\ row_call = [i \in 1..Len(chat_rows) |-> 0]
    /\ overlapped = FALSE
    /\ mem_session = AnswerSession
    /\ mem_project = AnswerProject
    /\ mem_limit = 0
    /\ mem_db_up = TRUE
    /\ mem_messages = <<>>

ConcurrentUnchanged ==
    /\ UNCHANGED <<op, mergeVars, fuseVars, rerankVars, strategyVars, serviceVars>>
    /\ UNCHANGED <<mem_session, mem_project, mem_limit, mem_messages, answerVars, arrivalVars>>
    /\ UNCHANGED <<bufferVars, interactiveVars>>

\* step 1: await chat_memory.get_messages
CallGetMessages(c) ==
    /\ call_pc[c] = "start"
    /\ \E up \in BOOLEAN :
           /\ call_history' = [call_history EXCEPT ![c] =
                  get_messages(chat_rows, AnswerSession, AnswerProject,
                               DefaultHistoryLimit, up)]
           /\ mem_db_up' = up
    /\ call_pc' = [call_pc EXCEPT ![c] = "retrieve"]
    /\ UNCHANGED <<chat_rows, call_answer, call_stored, row_call, overlapped>>
    /\ ConcurrentUnchanged

\* steps 2 and 3: create_strategy, await strategy.retrieve_documents; it raises,
\* retrieves nothing, or retrieves documents
CallRetrieve(c) ==
    /\ call_pc[c] = "retrieve"
    /\ \E next \in {"raised", "done", "generate"} :
           call_pc' = [call_pc EXCEPT ![c] = next]
    /\ UNCHANGED <<memoryVars, call_history, call_answer, call_stored, row_call, overlapped>>
    /\ ConcurrentUnchanged

\* step 4: await strategy.generate_answer; without an answer the call returns
CallGenerate(c) ==
    /\ call_pc[c] = "generate"
    /\ \E given \in CallAnswers :
           /\ call_answer' = [call_answer EXCEPT ![c] = given]
           /\ call_pc' = [call_pc EXCEPT ![c] =
                              IF given = Absent THEN "done" ELSE "save_user"]
    /\ UNCHANGED <<memoryVars, call_history, call_stored, row_call, overlapped>>
    /\ ConcurrentUnchanged

\* one await chat_memory.add_message of _save_conversation_to_memory: the
\* message at place `which` of the two
CallAddMessage(c, which, next) ==
    LET message == ConversationMessages(CallQuery(c), call_answer[c].text)[which]
    IN  /\ \E up \in BOOLEAN :
               /\ chat_rows' = add_message(chat_rows, AnswerSession, message.role,
                                           message.content, AnswerProject, up)
               /\ row_call' = IF up THEN Append(row_call, c) ELSE row_call
               /\ call_stored' = [call_stored EXCEPT ![c] = Append(@, up)]
               /\ mem_db_up' = up
        /\ overlapped' =
               (overlapped \/ \E d \in Calls \ {c} : call_pc[d] = "save_assistant")
        /\ call_pc' = [call_pc EXCEPT ![c] = next]
        /\ UNCHANGED <<call_history, call_answer>>
        /\ ConcurrentUnchanged

\* step 5, first await: the user query
CallSaveUser(c) ==
    /\ call_pc[c] = "save_user"
    /\ CallAddMessage(c, 1, "save_assistant")

\* step 5, second await: the assistant answer
CallSaveAssistant(c) ==
    /\ call_pc[c] = "save_assistant"
    /\ CallAddMessage(c, 2, "done")

AppIdle == BufferIdle /\ InteractiveIdle /\ ConcurrentIdle

ServiceIdle == FactoryIdle /\ VariationIdle /\ ParseIdle /\ RetrieveIdle

ExchangeIdle == MemoryIdle /\ AnswerIdle /\ ArrivalIdle

PipelineIdle == MergeIdle /\ FuseIdle /\ RerankIdle /\ StrategyIdle

vars ==
    <<op, mergeVars, fuseVars, rerankVars, strategyVars, serviceVars, exchangeVars, appVars>>

InitMerge == op = "init" /\ MergeInit /\ FuseIdle /\ RerankIdle /\ StrategyIdle /\ ServiceIdle /\ ExchangeIdle /\ AppIdle

SpecMerge == InitMerge /\ [][Retrieve]_vars

InitFlush == op = "init" /\ FlushInit /\ FuseIdle /\ RerankIdle /\ StrategyIdle /\ ServiceIdle /\ ExchangeIdle /\ AppIdle

SpecFlush == InitFlush /\ [][Retrieve]_vars

InitOrder == op = "init" /\ OrderInit /\ FuseIdle /\ RerankIdle /\ StrategyIdle /\ ServiceIdle /\ ExchangeIdle /\ AppIdle

SpecOrder == InitOrder /\ [][Retrieve]_vars

InitFuse == op = "init" /\ FuseInit /\ MergeIdle /\ RerankIdle /\ StrategyIdle /\ ServiceIdle /\ ExchangeIdle /\ AppIdle

InitBuffer ==
    /\ op = "init"
    /\ PipelineIdle /\ ServiceIdle /\ ExchangeIdle /\ BufferInit /\ InteractiveIdle
    /\ ConcurrentIdle

NextBuffer == AddMemory \/ Clear

SpecBuffer == InitBuffer /\ [][NextBuffer]_vars

InitConversation ==
    op = "init" /\ MergeIdle /\ FuseIdle /\ RerankIdle /\ ServiceIdle /\ MemoryIdle /\ ArrivalIdle /\ AppIdle
        /\ ConversationInit

SpecConversation == InitConversation /\ [][GeminiGenerateAnswer]_vars

InitInteractive ==
    /\ op = "init"
    /\ PipelineIdle /\ ServiceIdle /\ ExchangeIdle /\ BufferIdle /\ ConcurrentIdle
    /\ InteractiveInit

InitConcurrent ==
    /\ op = "init"
    /\ PipelineIdle /\ ServiceIdle /\ AnswerIdle /\ ArrivalIdle /\ BufferIdle
    /\ InteractiveIdle
    /\ ConcurrentInit

NextConcurrent ==
    \E c \in Calls :
        \/ CallGetMessages(c)
        \/ CallRetrieve(c)
        \/ CallGenerate(c)
        \/ CallSaveUser(c)
        \/ CallSaveAssistant(c)

SpecConcurrent == InitConcurrent /\ [][NextConcurrent]_vars

NextInteractive == AppAnswer \/ ConsoleAnswer

SpecInteractive == InitInteractive /\ [][NextInteractive]_vars

SpecFuse == InitFuse /\ [][Fuse]_vars

InitRerank == op = "init" /\ RerankInit /\ MergeIdle /\ FuseIdle /\ StrategyIdle /\ ServiceIdle /\ ExchangeIdle /\ AppIdle

NextRerank == RerankPassThrough \/ RerankScored

SpecRerank == InitRerank /\ [][NextRerank]_vars

InitStrategy == op = "init" /\ StrategyInit /\ MergeIdle /\ FuseIdle /\ RerankIdle /\ ServiceIdle /\ ExchangeIdle /\ AppIdle

NextStrategy == BasicGenerateAnswer \/ FusionGenerateAnswer \/ ReRankGenerateAnswer

SpecStrategy == InitStrategy /\ [][NextStrategy]_vars

InitFactory ==
    op = "init" /\ FactoryInit /\ PipelineIdle /\ ExchangeIdle /\ VariationIdle /\ ParseIdle /\ RetrieveIdle /\ AppIdle

SpecFactory == InitFactory /\ [][CreateStrategy]_vars

InitVariation ==
    op = "init" /\ VariationInit /\ PipelineIdle /\ ExchangeIdle /\ FactoryIdle /\ ParseIdle /\ RetrieveIdle /\ AppIdle

SpecVariation == InitVariation /\ [][GenerateQueryVariations]_vars

InitParse ==
    op = "init" /\ ParseInit /\ PipelineIdle /\ ExchangeIdle /\ FactoryIdle /\ VariationIdle /\ RetrieveIdle /\ AppIdle

SpecParse == InitParse /\ [][ParseRanking]_vars

InitRetrieve ==
    op = "init" /\ RetrieveInit /\ PipelineIdle /\ ExchangeIdle /\ FactoryIdle /\ VariationIdle /\ ParseIdle /\ AppIdle

NextRetrieve == BasicRetrieveDocuments \/ FusionRetrieveDocuments \/ ReRankRetrieveDocuments

SpecRetrieve == InitRetrieve /\ [][NextRetrieve]_vars

InitMemory ==
    op = "init" /\ PipelineIdle /\ ServiceIdle /\ MemoryIdle /\ AnswerIdle /\ ArrivalIdle /\ AppIdle

NextMemory == AddMessage \/ GetMessages \/ ClearSession

SpecMemory == InitMemory /\ [][NextMemory]_vars

InitAnswer == op = "init" /\ PipelineIdle /\ ServiceIdle /\ AnswerInit /\ ArrivalIdle /\ AppIdle

NextAnswer ==
    \/ AnswerGetMessages
    \/ AnswerRetrieve
    \/ AnswerGenerate
    \/ AnswerSaveUser
    \/ AnswerSaveAssistant

SpecAnswer == InitAnswer /\ [][NextAnswer]_vars

InitArrival ==
    op = "init" /\ PipelineIdle /\ ServiceIdle /\ MemoryIdle /\ AnswerIdle /\ ArrivalInit /\ AppIdle

NextArrival == FuseArrivals \/ FusionArrivals

SpecArrival == InitArrival /\ [][NextArrival]_vars

(***************************************************************************)
(* Reading a merge result back against its input.                          *)
(***************************************************************************)
\* every value sort_key can take
KeyRange == {0} \cup {IntValues[v] : v \in DOMAIN IntValues}

\* the candidates of source src in the order a stable sort by ordinal key gives:
\* key by key in ascending order, and in input order within one key
RECURSIVE ByKey(_, _)
ByKey(g, keys) ==
    IF keys = {} THEN <<>>
    ELSE LET k == CHOOSE x \in keys : \A y \in keys : x <= y
         IN  SelectSeq(g, LAMBDA d : sort_key(d) = k) \o ByKey(g, keys \ {k})

ExpectedRun(src) ==
    ByKey(SelectSeq(candidates, LAMBDA d : SourceOf(d.metadata) = src), KeyRange)

\* indices of the merged documents of source src, in output order
OutputsOf(src) ==
    SelectSeq([i \in 1..Len(merged_documents) |-> i],
              LAMBDA i : merged_documents[i].metadata.source = src)

RECURSIVE MembersAlong(_)
MembersAlong(idx) ==
    IF idx = <<>> THEN <<>>
    ELSE merged_documents[Head(idx)].metadata.members \o MembersAlong(Tail(idx))

\* how many members the merged documents of the same source hold before document i
RECURSIVE CountBefore(_, _)
CountBefore(idx, i) ==
    IF idx = <<>> \/ Head(idx) = i THEN 0
    ELSE merged_documents[Head(idx)].metadata.merged_from_count + CountBefore(Tail(idx), i)

\* the candidates that merged document i was built from
RunOf(i) ==
    LET src == merged_documents[i].metadata.source
        run == ExpectedRun(src)
        off == CountBefore(OutputsOf(src), i)
        cnt == merged_documents[i].metadata.merged_from_count
    IN  SubSeq(run, off + 1, Min(off + cnt, Len(run)))

RECURSIVE TextsOf(_)
TextsOf(docs) == IF docs = <<>> THEN <<>> ELSE <<Head(docs).page_content>> \o TextsOf(Tail(docs))

RECURSIVE MembersOf(_)
MembersOf(docs) == IF docs = <<>> THEN <<>> ELSE <<Member(Head(docs))>> \o MembersOf(Tail(docs))

RECURSIVE RawLen(_)
RawLen(docs) == IF docs = <<>> THEN 0 ELSE Len(Head(docs).page_content) + RawLen(Tail(docs))

Sources == {SourceOf(candidates[i].metadata) : i \in 1..Len(candidates)}

(***************************************************************************)
(* C1: no merged document mixes members of two source identifiers, and its *)
(* metadata 'source' is the identifier every one of its members resolves   *)
(* to (source / file_name / path, else "unknown_source").                  *)
(***************************************************************************)
C1_MergeGrouping ==
    \A i \in 1..Len(merged_documents) :
        LET m == merged_documents[i].metadata
        IN  \A j \in 1..Len(m.members) : SourceOf(m.members[j].meta) = m.source

\* two groups came out, one of them a merge of several members found by fallback keys
C1_Witness ==
    /\ op = "retrieve"
    /\ \E i, j \in 1..Len(merged_documents) :
        /\ merged_documents[i].metadata.source # merged_documents[j].metadata.source
        /\ merged_documents[i].metadata.merged_from_count >= 2
        /\ \E n \in 1..Len(merged_documents[i].metadata.members) :
               ~Truthy(merged_documents[i].metadata.members[n].meta, "source")

(***************************************************************************)
(* C2 as claimed: every merged document has len(text) <= char_limit or is  *)
(* made of exactly one member.                                             *)
(***************************************************************************)
C2_Claimed ==
    \A i \in 1..Len(merged_documents) :
        \/ Len(merged_documents[i].page_content) <= merge_char_limit
        \/ merged_documents[i].metadata.merged_from_count = 1

(***************************************************************************)
(* C2 amended: every merged document is made of exactly one member, or the *)
(* raw text lengths of its members sum to at most char_limit, so that      *)
(* len(text) <= char_limit + 2 * (members - 1): the "\n\n" separators are  *)
(* not counted against the limit.                                          *)
(***************************************************************************)
C2_MergeBound ==
    \A i \in 1..Len(merged_documents) :
        LET cnt == merged_documents[i].metadata.merged_from_count
        IN  \/ cnt = 1
            \/ /\ RawLen(RunOf(i)) <= merge_char_limit
               /\ Len(merged_documents[i].page_content) <= merge_char_limit + 2 * (cnt - 1)

\* a merge of two members that fills the limit exactly
C2_Witness ==
    /\ op = "retrieve"
    /\ \E i \in 1..Len(merged_documents) :
        /\ merged_documents[i].metadata.merged_from_count = 2
        /\ RawLen(RunOf(i)) = merge_char_limit
        /\ Len(merged_documents[i].page_content) > merge_char_limit

(***************************************************************************)
(* C3: per source, the members of its merged documents read in output      *)
(* order are the source's candidates sorted by ordinal key, non-decreasing *)
(* and with equal keys in input order; each merged document is a           *)
(* contiguous run of that sequence, and its text is the run's text.        *)
(***************************************************************************)
C3_MergeOrder ==
    op = "retrieve" =>
        /\ \A src \in Sources :
               MembersAlong(OutputsOf(src)) = MembersOf(ExpectedRun(src))
        /\ \A i \in 1..Len(merged_documents) :
               merged_documents[i].page_content = Strip(JoinParts(TextsOf(RunOf(i))))

\* a group of three that the sort reorders and that holds two equal keys
C3_Witness ==
    /\ op = "retrieve"
    /\ \E src \in Sources :
        LET g == SelectSeq(candidates, LAMBDA d : SourceOf(d.metadata) = src)
        IN  /\ Len(g) = 3
            /\ sort_key(g[1]) > sort_key(g[3])
            /\ sort_key(g[1]) = sort_key(g[2])
            /\ g[1] # g[2]

(***************************************************************************)
(* Reading a fusion result back against its input.                         *)
(***************************************************************************)
\* every (text, rank) of the input, in the order fuse walks it
RECURSIVE Entries(_)
Entries(rankings) ==
    IF rankings = <<>> THEN <<>>
    ELSE [j \in 1..Len(Head(rankings)) |-> [doc |-> Head(rankings)[j], rank |-> j - 1]]
         \o Entries(Tail(rankings))

AllEntries == Entries(fuse_results)

FuseTexts == LET en == AllEntries IN {en[i].doc : i \in 1..Len(en)}

Occurrences(t) == SelectSeq(AllEntries, LAMBDA en : en.doc = t)

\* the place of the first occurrence of t among all entries
RECURSIVE FirstIn(_, _)
FirstIn(en, t) == IF Head(en).doc = t THEN 1 ELSE 1 + FirstIn(Tail(en), t)

FirstAppearance == [t \in FuseTexts |-> FirstIn(AllEntries, t)]

\* the common multiple the exact scores are counted in
RECURSIVE Product(_, _)
Product(from, to) == IF from > to THEN 1 ELSE from * Product(from + 1, to)

ExactUnit == Product(fusion_k + 1, fusion_k + MaxRankLen)

\* the sum of 1/(k+rank+1) over the occurrences of t, as a real number (in ExactUnit-ths)
RECURSIVE ExactSum(_, _)
ExactSum(occ, unit) ==
    IF occ = <<>> THEN 0
    ELSE unit \div (fusion_k + Head(occ).rank + 1) + ExactSum(Tail(occ), unit)

ExactScore == LET unit == ExactUnit IN [t \in FuseTexts |-> ExactSum(Occurrences(t), unit)]

\* the same sum as the float the interpreter accumulates, term by term
RECURSIVE FloatSum(_, _)
FloatSum(occ, acc) ==
    IF occ = <<>> THEN acc
    ELSE FloatSum(Tail(occ), FAdd(acc, Reciprocals[fusion_k + Head(occ).rank + 1]))

FloatScore == [t \in FuseTexts |-> FloatSum(Occurrences(t), FZero)]

\* the texts, best first: `better` orders two texts of different score,
\* texts that neither way are better go by first appearance
OrderBy(texts, first, better(_, _)) ==
    LET place(t) == 1 + Cardinality({u \in texts :
                        \/ better(u, t)
                        \/ ~better(t, u) /\ first[u] < first[t]})
    IN  [p \in 1..Cardinality(texts) |-> CHOOSE t \in texts : place(t) = p]

\* the texts by exact score descending, equal scores by first appearance
ExactOrder ==
    LET ex == ExactScore
        better(u, t) == ex[u] > ex[t]
    IN  OrderBy(FuseTexts, FirstAppearance, better)

\* x is output before y
Before(x, y) == \E i, j \in 1..Len(fused) : i < j /\ fused[i] = x /\ fused[j] = y

NoRepeats(ranking) == \A i, j \in 1..Len(ranking) : i # j => ranking[i] # ranking[j]

Scenario == <<(<<"a", "b", "c">>), (<<"b", "c", "a">>)>>

(***************************************************************************)
(* C4 as claimed: fuse returns the first top_k of the distinct texts       *)
(* ordered by the sum of 1/(k+rank+1) descending, texts with equal sums in *)
(* the order of their first appearance.                                    *)
(***************************************************************************)
C4_Claimed == op = "fuse" => fused = Prefix(ExactOrder, fuse_top_k)

(***************************************************************************)
(* C4 amended: fuse returns the first top_k of the distinct texts ordered  *)
(* by the score it accumulated descending, the score being the float sum,  *)
(* added in input order, of 1/(k+rank+1); texts whose accumulated floats   *)
(* are equal keep the order of their first appearance; no text appears     *)
(* twice.  A larger exact sum gives a larger float, so the order differs   *)
(* from the claimed one only between texts of equal exact sum whose        *)
(* contributions round differently.                                        *)
(***************************************************************************)
C4_FuseOrder ==
    op = "fuse" =>
        LET texts == FuseTexts
            first == FirstAppearance
            ex    == ExactScore
            fl    == FloatScore
            \* t goes before u: the larger float, or the same float and seen first
            ahead(t, u) == FLess(fl[u], fl[t]) \/ (fl[u] = fl[t] /\ first[t] < first[u])
        IN  /\ Len(fused) = Min(fuse_top_k, Cardinality(texts))
            /\ \A i \in 1..Len(fused) : fused[i] \in texts
            /\ \A i, j \in 1..Len(fused) : i < j => ahead(fused[i], fused[j])
            /\ \A t \in texts :
                   (\A i \in 1..Len(fused) : fused[i] # t) =>
                       \A i \in 1..Len(fused) : ahead(fused[i], t)
            /\ \A t, u \in texts : ex[t] > ex[u] => FLess(fl[u], fl[t])

\* two texts tie on sums of two contributions each, and top_k cuts the result
C4_Witness ==
    /\ op = "fuse"
    /\ Len(fused) < Cardinality(FuseTexts)
    /\ \E t, u \in FuseTexts :
        /\ Before(t, u)
        /\ FloatScore[t] = FloatScore[u]
        /\ Len(Occurrences(t)) = 2
        /\ Occurrences(t)[1].rank # Occurrences(u)[1].rank

(***************************************************************************)
(* C5 as claimed: fuse([[a,b,c],[b,c,a]], k=60, top_k=3) ranks both "b"    *)
(* and "c" before "a".                                                     *)
(***************************************************************************)
C5_Claimed ==
    (op = "fuse" /\ fusion_k = DefaultK /\ fuse_results = Scenario /\ fuse_top_k = 3)
        => Before("b", "a") /\ Before("c", "a")

(***************************************************************************)
(* C5 amended: fuse([[a,b,c],[b,c,a]], k=60, top_k=3) returns [b, a, c]:   *)
(* "b" is ranked before "a", and "c" after it.                             *)
(***************************************************************************)
C5_Scenario ==
    (op = "fuse" /\ fusion_k = DefaultK /\ fuse_results = Scenario /\ fuse_top_k = 3)
        => fused = <<"b", "a", "c">>

C5_Witness ==
    op = "fuse" /\ fusion_k = DefaultK /\ fuse_results = Scenario /\ fuse_top_k = 3

(***************************************************************************)
(* C6 as claimed: for every single ranking, fuse([ranking], top_k) is the  *)
(* first top_k items of the ranking in their original order.               *)
(***************************************************************************)
C6_Claimed ==
    (op = "fuse" /\ Len(fuse_results) = 1) => fused = Prefix(fuse_results[1], fuse_top_k)

(***************************************************************************)
(* C6 amended: for every single ranking in which no text is repeated,      *)
(* fuse([ranking], top_k) is the first top_k items of the ranking in their *)
(* original order.                                                         *)
(***************************************************************************)
C6_Singleton ==
    (op = "fuse" /\ Len(fuse_results) = 1 /\ NoRepeats(fuse_results[1]))
        => fused = Prefix(fuse_results[1], fuse_top_k)

\* one ranking of distinct texts, cut by top_k
C6_Witness ==
    /\ op = "fuse"
    /\ Len(fuse_results) = 1
    /\ NoRepeats(fuse_results[1])
    /\ Len(fuse_results[1]) >= 2
    /\ Len(fused) >= 1
    /\ Len(fused) < Len(fuse_results[1])

(***************************************************************************)
(* C7: a text X at rank 0 of two rankings has a strictly higher fused      *)
(* score than a text Y whose only appearance is at rank 0 of one ranking,  *)
(* and Y is never output without X before it; for every k >= 0.            *)
(***************************************************************************)
TopOfTwo(x) ==
    Cardinality({i \in 1..Len(fuse_results) :
                    fuse_results[i] # <<>> /\ fuse_results[i][1] = x}) >= 2

TopOfOneOnly(y) == Len(Occurrences(y)) = 1 /\ Occurrences(y)[1].rank = 0

C7_Consensus ==
    op = "fuse" =>
        LET ex == ExactScore
            fl == FloatScore
        IN  \A x, y \in FuseTexts :
                (TopOfTwo(x) /\ TopOfOneOnly(y)) =>
                    /\ ex[x] > ex[y]
                    /\ FLess(fl[y], fl[x])
                    /\ \A j \in 1..Len(fused) :
                           fused[j] = y => \E i \in 1..(j - 1) : fused[i] = x

C7_Witness ==
    /\ op = "fuse"
    /\ \E x, y \in FuseTexts : TopOfTwo(x) /\ TopOfOneOnly(y) /\ Before(x, y)

(***************************************************************************)
(* Reading a rerank result back against its input.                         *)
(***************************************************************************)
\* the docs by predicted score descending, equal scores in input order
ExpectedRanked ==
    LET n        == Len(rerank_docs)
        sc(i)    == scorer[rerank_docs[i]]
        place(i) == 1 + Cardinality({j \in 1..n : sc(j) > sc(i) \/ (sc(j) = sc(i) /\ j < i)})
        at(p)    == CHOOSE i \in 1..n : place(i) = p
    IN  [p \in 1..n |-> [doc |-> rerank_docs[at(p)], score |-> sc(at(p))]]

(***************************************************************************)
(* C8: with the cross-encoder not loaded, rerank returns the first top_k   *)
(* docs in input order, each with score 1.0, and never calls the scorer.   *)
(***************************************************************************)
C8_RerankDisabled ==
    (op = "rerank" /\ ~rerank_enabled) =>
        /\ predict_calls = 0
        /\ Len(reranked) = Min(rerank_top_k, Len(rerank_docs))
        /\ \A i \in 1..Len(reranked) :
               reranked[i] = [doc |-> rerank_docs[i], score |-> DisabledScore]

C8_Witness ==
    /\ op = "rerank"
    /\ ~rerank_enabled
    /\ Len(rerank_docs) = 3
    /\ Len(reranked) = 2
    /\ scorer[rerank_docs[1]] < scorer[rerank_docs[2]]

(***************************************************************************)
(* C9: with the scorer available, rerank returns min(top_k, len(docs))     *)
(* pairs (doc, score of (query, doc)), in non-increasing score order with  *)
(* equal-scored docs in input order: the top-scored ones of the input.     *)
(***************************************************************************)
C9_RerankScored ==
    (op = "rerank" /\ rerank_enabled) =>
        /\ predict_calls = 1
        /\ Len(reranked) = Min(rerank_top_k, Len(rerank_docs))
        /\ reranked = Prefix(ExpectedRanked, rerank_top_k)

\* three docs, the best one last and the first two tied, cut to two
C9_Witness ==
    /\ op = "rerank"
    /\ rerank_enabled
    /\ Len(rerank_docs) = 3
    /\ rerank_top_k = 2
    /\ rerank_docs[1] # rerank_docs[2]
    /\ scorer[rerank_docs[1]] = scorer[rerank_docs[2]]
    /\ scorer[rerank_docs[3]] > scorer[rerank_docs[1]]

(***************************************************************************)
(* C10: for each of the three strategies, generate_answer(query, [], h)    *)
(* returns (None, "") for every query and history h, and generate_text is  *)
(* not called.                                                             *)
(***************************************************************************)
C10_EmptyGuard ==
    (op = "generate_answer" /\ retrieved_documents = <<>>) =>
        /\ answer = None
        /\ full_prompt = <<>>
        /\ generate_calls = <<>>

\* a strategy was handed no documents, a history, and an LLM that would have replied
C10_Witness ==
    /\ op = "generate_answer"
    /\ strategy = "rerank"
    /\ retrieved_documents = <<>>
    /\ chat_history # <<>>
    /\ llm_reply # None

IsDigitAt(i) == i \in 1..Len(parse_response) /\ parse_response[i] \in Digits

NumberStarts == {i \in 1..Len(parse_response) : IsDigitAt(i) /\ ~IsDigitAt(i - 1)}

NumberEnd(i) ==
    CHOOSE j \in i..Len(parse_response) :
        (\A m \in i..j : IsDigitAt(m)) /\ ~IsDigitAt(j + 1)

RECURSIVE NumberValue(_, _)
NumberValue(i, j) ==
    IF i > j THEN 0 ELSE DigitValue[parse_response[i]] * 10^(j - i) + NumberValue(i + 1, j)

\* the zero-based indices the response mentions that are in range, left to right
RECURSIVE MentionedFrom(_)
MentionedFrom(i) ==
    IF i > Len(parse_response) THEN <<>>
    ELSE IF i \in NumberStarts
    THEN LET idx == NumberValue(i, NumberEnd(i)) - 1
         IN  (IF 0 <= idx /\ idx < parse_num_docs THEN <<idx>> ELSE <<>>)
                 \o MentionedFrom(NumberEnd(i) + 1)
    ELSE MentionedFrom(i + 1)

(***************************************************************************)
(* C17: _parse_ranking returns indices within 0..n-1 among which every     *)
(* index 0..n-1 occurs: first the zero-based in-range numbers of the       *)
(* response in their order, then the indices not mentioned, ascending.     *)
(***************************************************************************)
C17_ParseRanking ==
    op = "parse_ranking" =>
        LET mentioned == MentionedFrom(1)
            rest      == SubSeq(parsed_ranking, Len(mentioned) + 1, Len(parsed_ranking))
        IN  /\ \A i \in 1..Len(parsed_ranking) : parsed_ranking[i] \in 0..(parse_num_docs - 1)
            /\ \A idx \in 0..(parse_num_docs - 1) :
                   \E i \in 1..Len(parsed_ranking) : parsed_ranking[i] = idx
            /\ Len(parsed_ranking) >= Len(mentioned)
            /\ SubSeq(parsed_ranking, 1, Len(mentioned)) = mentioned
            /\ \A i \in 1..Len(rest) :
                   /\ \A j \in 1..Len(mentioned) : mentioned[j] # rest[i]
                   /\ \A j \in 1..(i - 1) : rest[j] < rest[i]

\* "3,12" for three documents: 3 is kept as index 2, 12 is out of range, 0 and 1 follow
C17_Witness ==
    /\ op = "parse_ranking"
    /\ parse_response = <<"3", ",", "1", "2">>
    /\ parse_num_docs = 3
    /\ parsed_ranking = <<2, 0, 1>>

(***************************************************************************)
(* C19: for num_queries >= 1, _generate_query_variations returns a         *)
(* non-empty list that starts with the original query and has at most      *)
(* num_queries elements; it is [original query] when generate_text returns *)
(* None or raises.                                                         *)
(***************************************************************************)
C19_Variations ==
    (op = "generate_query_variations" /\ fusion_num_queries >= 1) =>
        /\ query_variations # <<>>
        /\ Head(query_variations) = variation_query
        /\ Len(query_variations) <= fusion_num_queries
        /\ variation_reply.kind \in {"none", "raise"} =>
               query_variations = <<variation_query>>

\* more usable lines in the response than asked for: the list is cut at num_queries
C19_Witness ==
    /\ op = "generate_query_variations"
    /\ fusion_num_queries = 2
    /\ variation_reply =
           TextReply(JoinLines(<<(<<"2", ")", " ">> \o ElevenChars), ElevenChars \o <<" ">>>>))
    /\ Len(query_variations) = 2
    /\ query_variations[2] = ElevenChars

(***************************************************************************)
(* C15: retrieve_documents of each strategy returns at most limit          *)
(* documents.                                                              *)
(***************************************************************************)
C15_AtMostLimit ==
    (op = "retrieve_documents" /\ ~ret_result.raised) => Len(ret_result.docs) <= ret_limit

\* more distinct texts found than limit: the fused list is cut
C15_Witness ==
    /\ op = "retrieve_documents"
    /\ ret_strategy.class = "FusionRAGStrategy"
    /\ ~ret_result.raised
    /\ \E i \in 1..Len(ret_finds) :
           ret_embeds[i] = Vectors /\ ret_finds[i].kind = "docs"
               /\ Len(ret_finds[i].docs) > ret_limit
    /\ Len(ret_result.docs) = ret_limit

\* the embedding or the search of variant i gave back nothing
VariantFailed(i) == NoQueryVectors(ret_embeds[i]) \/ NoResults(ret_finds[i])

(***************************************************************************)
(* C16 as claimed: in FusionRAGStrategy.retrieve_documents a variant whose *)
(* embedding or search gives back an empty or absent result is dropped     *)
(* without raising, and the result is empty only if every variant failed.  *)
(***************************************************************************)
C16_Claimed ==
    (/\ op = "retrieve_documents"
     /\ ret_strategy.class = "FusionRAGStrategy"
     /\ \A i \in 1..Len(ret_embeds) :
            ret_embeds[i].kind # "raise" /\ ret_finds[i].kind # "raise") =>
        /\ ~ret_result.raised
        /\ ret_result.docs = <<>> <=> \A i \in 1..Len(ret_embeds) : VariantFailed(i)

(***************************************************************************)
(* C18: in ReRankRAGStrategy, when generate_text returns None or raises    *)
(* during reranking, retrieve_documents returns the first limit documents  *)
(* of the initial search, in their order and with their scores, and does   *)
(* not raise.                                                              *)
(***************************************************************************)
C18_RerankFallback ==
    (/\ op = "retrieve_documents"
     /\ ret_strategy.class = "ReRankRAGStrategy"
     /\ ret_embeds[1] = Vectors
     /\ ret_finds[1].kind = "docs"
     /\ ret_reply.kind \in {"none", "raise"}) =>
        /\ ~ret_result.raised
        /\ ret_result.docs = Prefix(ret_finds[1].docs, ret_limit)

C18_Witness ==
    /\ op = "retrieve_documents"
    /\ ret_strategy.class = "ReRankRAGStrategy"
    /\ ret_embeds[1] = Vectors
    /\ ret_finds[1].kind = "docs"
    /\ Len(ret_finds[1].docs) > ret_limit
    /\ ret_reply = Raises
    /\ ret_result.docs = <<ret_finds[1].docs[1]>>
    /\ ret_result.docs[1].score = QuarterScore

\* the stored messages of the session and project of the call
RowsOfCall == SessionRows(chat_rows, mem_session, mem_project)

(***************************************************************************)
(* C20 as claimed: get_messages(session_id, project_id, limit) returns,    *)
(* oldest first, only messages of that session and project, at most limit  *)
(* of them, and those are the most recent ones, for every limit from 0.    *)
(***************************************************************************)
C20_Claimed ==
    (op = "get_messages" /\ mem_db_up) =>
        LET n    == Len(RowsOfCall)
            kept == Min(mem_limit, n)
        IN  /\ Len(mem_messages) = kept
            /\ \A i \in 1..kept :
                   /\ mem_messages[i].role = RowsOfCall[n - kept + i].role
                   /\ mem_messages[i].content = RowsOfCall[n - kept + i].content

\* generate_content rejected the request for safety, or returned no candidates
SafetyRejected == ans_api.kind \in {"blocked", "safety", "no_candidates"}

(***************************************************************************)
(* C13 as claimed: when generate_content rejects the request for safety or *)
(* returns no candidates, generate_text returns None, so the exchange has  *)
(* no answer and nothing is written to chat memory.                        *)
(***************************************************************************)
C13_Claimed ==
    SafetyRejected =>
        /\ ans_answer = Absent
        /\ pc = "done"
        /\ \A i \in 1..Len(ans_calls) : ans_calls[i] # "add_message"

(***************************************************************************)
(* C12.  The row that add_message of the exchange writes for a role.       *)
(***************************************************************************)
ExchangeRow(role, content) ==
    [session_id |-> AnswerSession, project_id |-> AnswerProject,
     role |-> role, content |-> content]

\* chat memory is read once, first; add_message comes only after generate_answer
\* returned an answer; without documents or without an answer there is no write
CallOrder ==
    /\ ans_calls # <<>> => ans_calls[1] = "get_messages"
    /\ \A i \in 2..Len(ans_calls) : ans_calls[i] # "get_messages"
    /\ \A i \in 1..Len(ans_calls) :
           ans_calls[i] = "add_message" =>
               /\ ans_answer # Absent
               /\ \E j \in 1..(i - 1) : ans_calls[j] = "generate_answer"
    /\ (pc = "done" /\ (NoDocuments(ans_documents) \/ ans_answer = Absent)) =>
           \A i \in 1..Len(ans_calls) : ans_calls[i] # "add_message"
    /\ (pc = "done" /\ ans_answer # Absent) =>
           /\ Len(ans_calls) = 5
           /\ ans_calls[4] = "add_message"
           /\ ans_calls[5] = "add_message"

\* the table changes only in the two steps of _save_conversation_to_memory
WritesOnlyWhenSaving == chat_rows' # chat_rows => pc \in {"save_user", "save_assistant"}

\* each of the two add_message calls appends its row unless its database write fails
TwoMessagesTried ==
    /\ pc = "save_user" =>
           chat_rows' = IF mem_db_up'
                        THEN Append(chat_rows, ExchangeRow(UserRole, RetrieveQuery))
                        ELSE chat_rows
    /\ pc = "save_assistant" =>
           chat_rows' = IF mem_db_up'
                        THEN Append(chat_rows, ExchangeRow(AssistantRole, ans_answer.text))
                        ELSE chat_rows

(***************************************************************************)
(* C12: in answer_rag_question chat memory is read once, at the start, and *)
(* written only after generate_answer returned an answer: no message is    *)
(* added when nothing was retrieved or nothing generated, and on success   *)
(* exactly two are, the user query and then the assistant answer.  Adding  *)
(* is add_message; the row is in the table when its database write did     *)
(* not fail.                                                               *)
(***************************************************************************)
C12_Exchange == []CallOrder /\ [][WritesOnlyWhenSaving /\ TwoMessagesTried]_vars

\* a successful exchange: the table ends with the user query and the answer
C12_Witness ==
    /\ pc = "done"
    /\ ans_answer # Absent
    /\ Len(ans_calls) = 5
    /\ Len(chat_rows) >= 2
    /\ chat_rows[Len(chat_rows) - 1] = ExchangeRow(UserRole, RetrieveQuery)
    /\ chat_rows[Len(chat_rows)] = ExchangeRow(AssistantRole, ans_answer.text)

\* the place of a text in a ranked list, counted from 1; 0 when it is not there
PlaceIn(text, ranking) ==
    IF \E r \in 1..Len(ranking) : ranking[r] = text
    THEN CHOOSE r \in 1..Len(ranking) : ranking[r] = text
    ELSE 0

\* the sum of 1 / (kk + place) over the lists that hold the text, as a number of
\* units of 1 / ((kk + 1) * ... * (kk + MaxHits))
RECURSIVE ExactRankSum(_, _, _)
ExactRankSum(text, lists, kk) ==
    IF lists = <<>> THEN 0
    ELSE (IF PlaceIn(text, Head(lists)) = 0 THEN 0
          ELSE Product(kk + 1, kk + MaxHits) \div (kk + PlaceIn(text, Head(lists))))
             + ExactRankSum(text, Tail(lists), kk)

\* (rrf_score + avg_similarity) / 2 in units of 1 / (8 * 61 * ... * (60 + MaxHits)):
\* every hit of a text has the similarity of the text, which is 1/2 or 1/4
ExactFusionScore(text, lists) ==
    4 * ExactRankSum(text, lists, DefaultK)
        + (IF SimilarityOf(text) = HalfScore THEN 2 ELSE 1)
              * Product(DefaultK + 1, DefaultK + MaxHits)

ArrivedTexts == {t \in ArrivalTexts : \E i \in 1..Len(arrivals) : PlaceIn(t, arrivals[i]) # 0}

\* no two texts of the lists have the same fused score
NoFuseTie ==
    \A t, u \in ArrivedTexts :
        t # u => ExactRankSum(t, arrivals, arr_k) # ExactRankSum(u, arrivals, arr_k)

NoFusionTie ==
    \A t, u \in ArrivedTexts :
        t # u => ExactFusionScore(t, arrivals) # ExactFusionScore(u, arrivals)

FlushedBefore(buf, c) ==
    /\ buf # <<>>
    /\ \/ RawLen(buf) + Len(c.page_content) > merge_char_limit
       \/ Len(buf) + 1 > max_chunks_per_merge

\* the merged document of the same source that follows document i, or 0
NextOfSource(i) ==
    LET outs == OutputsOf(merged_documents[i].metadata.source)
        p    == CHOOSE n \in 1..Len(outs) : outs[n] = i
    IN  IF p < Len(outs) THEN outs[p + 1] ELSE 0

Max(a, b) == IF a >= b THEN a ELSE b

ScenarioCandidates ==
    <<[page_content |-> ThirtyOf("A"), metadata |-> [source |-> "s1", chunk |-> "0"]],
      [page_content |-> ThirtyOf("B"), metadata |-> [source |-> "s1", chunk |-> "1"]]>>

(***************************************************************************)
(* C22: while one source group is merged, the buffer is flushed before     *)
(* candidate c is appended exactly when it is non-empty and (the raw text  *)
(* lengths in it plus len(c) exceed char_limit, or its member count plus   *)
(* one exceeds max_members): inside a merged document no member met the    *)
(* condition, and the first member of the next document of the source did. *)
(* So every merged document has at least 1 and at most max(1, max_members) *)
(* members, and two 30-character candidates of one source with             *)
(* char_limit = 50 give two merged documents.                              *)
(***************************************************************************)
C22_Flush ==
    /\ \A i \in 1..Len(merged_documents) :
        LET run  == RunOf(i)
            cnt  == merged_documents[i].metadata.merged_from_count
            next == NextOfSource(i)
        IN  /\ Len(run) = cnt
            /\ \A j \in 2..cnt : ~FlushedBefore(SubSeq(run, 1, j - 1), run[j])
            /\ next # 0 => FlushedBefore(run, RunOf(next)[1])
            /\ cnt >= 1
            /\ cnt <= Max(1, max_chunks_per_merge)
    /\ (/\ op = "retrieve"
        /\ candidates = ScenarioCandidates
        /\ merge_char_limit = 50) => Len(merged_documents) = 2

\* the scenario: two 30-character chunks of one source, char_limit 50, max_members 10
C22_Witness ==
    /\ op = "retrieve"
    /\ candidates = ScenarioCandidates
    /\ merge_char_limit = 50
    /\ max_chunks_per_merge = 10
    /\ Len(merged_documents) = 2
    /\ merged_documents[1].page_content = ThirtyOf("A")
    /\ merged_documents[2].page_content = ThirtyOf("B")

(***************************************************************************)
(* Reading the ordinal keys back from the order of a merge result.         *)
(***************************************************************************)
\* the positions in OrderKeys of the keys present in md, and of those that parse
PresentKeys(md) == {i \in 1..Len(OrderKeys) : OrderKeys[i] \in DOMAIN md}

ParsedKeys(md) == {i \in PresentKeys(md) : md[OrderKeys[i]] \in {"0", "1", "2"}}

Least(S) == CHOOSE x \in S : \A y \in S : x <= y

Value(v) == CASE v = "0" -> 0 [] v = "1" -> 1 [] v = "2" -> 2 [] OTHER -> 0

\* the ordinal key as claimed: the first present key decides, 0 if it does not parse
FirstPresentKey(md) ==
    IF PresentKeys(md) = {} THEN 0 ELSE Value(md[OrderKeys[Least(PresentKeys(md))]])

\* the ordinal key as coded: the first present key whose value parses decides
FirstParsedKey(md) ==
    IF ParsedKeys(md) = {} THEN 0 ELSE Value(md[OrderKeys[Least(ParsedKeys(md))]])

\* the members of all merged documents, in output order
AllMembers == MembersAlong([i \in 1..Len(merged_documents) |-> i])

\* the members are the candidates in a stable ascending order of the key Key
StablyOrderedBy(Key(_)) ==
    /\ Len(AllMembers) = Len(candidates)
    /\ \E pi \in [1..Len(candidates) -> 1..Len(candidates)] :
        /\ \A i, j \in 1..Len(candidates) : i # j => pi[i] # pi[j]
        /\ \A i \in 1..Len(candidates) : AllMembers[i] = Member(candidates[pi[i]])
        /\ \A i, j \in 1..Len(candidates) :
               i < j => \/ Key(candidates[pi[i]].metadata) < Key(candidates[pi[j]].metadata)
                        \/ /\ Key(candidates[pi[i]].metadata) = Key(candidates[pi[j]].metadata)
                           /\ \/ pi[i] < pi[j]
                              \/ candidates[pi[i]] = candidates[pi[j]]

(***************************************************************************)
(* C23 as claimed: the ordinal key that orders a candidate is the integer  *)
(* value of the first key present in its metadata among chunk,             *)
(* chunk_index, page, page_number, part, and 0 when no such key is present *)
(* or when that first present key's value does not parse.                  *)
(***************************************************************************)
C23_Claimed == op = "retrieve" => StablyOrderedBy(FirstPresentKey)

(***************************************************************************)
(* C23: the ordinal key that orders a candidate is the integer value of    *)
(* the first key among chunk, chunk_index, page, page_number, part that is *)
(* present in its metadata with a value that parses as an integer, and 0   *)
(* when there is no such key; the merge returns a result holding every     *)
(* candidate whatever keys the metadata holds or lacks.                    *)
(***************************************************************************)
C23_OrdinalKey == op = "retrieve" => StablyOrderedBy(FirstParsedKey)

\* a chunk whose first present key does not parse and whose later key does is
\* ordered after a chunk without metadata that came later
C23_Witness ==
    /\ op = "retrieve"
    /\ Len(candidates) = 2
    /\ candidates[1].metadata = [chunk |-> "x", page |-> "1"]
    /\ candidates[2].metadata = NoMeta
    /\ AllMembers = <<Member(candidates[2]), Member(candidates[1])>>

(***************************************************************************)
(* Counting the candidates in a merge result.                              *)
(***************************************************************************)
\* how often the member record m occurs in the sequence of member records ms
TimesIn(m, ms) == Cardinality({i \in 1..Len(ms) : ms[i] = m})

RECURSIVE SumOfCounts(_)
SumOfCounts(i) ==
    IF i = 0 THEN 0 ELSE merged_documents[i].metadata.merged_from_count + SumOfCounts(i - 1)

(***************************************************************************)
(* C27: retrieve neither drops nor duplicates candidates: every candidate  *)
(* is a member of exactly one merged document (the member records of the   *)
(* output are those of the candidates, each as often as it came in), each  *)
(* merged_from_count is the length of the members list, and the counts sum *)
(* to the number of candidates.                                            *)
(***************************************************************************)
C27_NoLoss ==
    op = "retrieve" =>
        /\ \A i \in 1..Len(candidates) :
               TimesIn(Member(candidates[i]), AllMembers)
                   = TimesIn(Member(candidates[i]), MembersOf(candidates))
        /\ Len(AllMembers) = Len(candidates)
        /\ \A i \in 1..Len(merged_documents) :
               merged_documents[i].metadata.merged_from_count
                   = Len(merged_documents[i].metadata.members)
        /\ SumOfCounts(Len(merged_documents)) = Len(candidates)

\* three candidates of two sources, two of them alike, came out as two documents
C27_Witness ==
    /\ op = "retrieve"
    /\ Len(candidates) = 3
    /\ Len(merged_documents) = 2
    /\ candidates[1] = candidates[3]
    /\ SourceOf(candidates[1].metadata) # SourceOf(candidates[2].metadata)
    /\ merged_documents[1].metadata.merged_from_count = 2

(***************************************************************************)
(* C26 as claimed: after any sequence of add_exchange (add_memory) and     *)
(* clear calls on a ConversationBufferMemory with window_size w >= 0, it   *)
(* holds at most w exchanges, and they are the most recently added ones in *)
(* insertion order; clear leaves it empty.                                 *)
(***************************************************************************)
C26_Claimed ==
    /\ Len(exchanges) <= window_size
    /\ exchanges = SubSeq(buffer_added,
                          Len(buffer_added) - Min(window_size, Len(buffer_added)) + 1,
                          Len(buffer_added))
    /\ op = "clear" => exchanges = <<>>

(***************************************************************************)
(* Reading the variants back against the lines of the response.            *)
(***************************************************************************)
\* the non-blank lines of the response that the loop reads, each with its
\* leading digits and enumeration punctuation stripped
CleanedLinesRead ==
    LET lines == SliceTo(StrippedLines(variation_reply.text), fusion_num_queries - 1)
    IN  [i \in 1..Len(lines) |-> Strip(LStripChars(lines[i], NumberingChars))]

VariantsParsed ==
    /\ op = "generate_query_variations"
    /\ variation_reply.kind = "text"
    /\ variation_reply.text # <<>>

(***************************************************************************)
(* C24 as claimed: a response line, after stripping leading digits and     *)
(* enumeration punctuation, is kept as a variant if and only if its length *)
(* is at least 10 characters.                                              *)
(***************************************************************************)
C24_Claimed ==
    VariantsParsed =>
        Tail(query_variations) = SelectSeq(CleanedLinesRead, LAMBDA line : Len(line) >= 10)

(***************************************************************************)
(* C24: a response line that is read, after stripping leading digits and   *)
(* enumeration punctuation, is kept as a variant if and only if its length *)
(* is more than 10 characters; lines of 10 characters or fewer are         *)
(* discarded.                                                              *)
(***************************************************************************)
C24_LongerThanTen ==
    VariantsParsed =>
        Tail(query_variations) = SelectSeq(CleanedLinesRead, LAMBDA line : Len(line) >= 11)

\* a numbered line of exactly 10 characters is dropped, one of 11 is kept
C24_Witness ==
    /\ op = "generate_query_variations"
    /\ fusion_num_queries = 3
    /\ variation_reply =
           TextReply(JoinLines(<<(<<"1", ".", " ">> \o TenChars), (<<"2", ")", " ">> \o ElevenChars)>>))
    /\ query_variations = <<variation_query, ElevenChars>>

(***************************************************************************)
(* Reading a fusion of one search back against its hits.                   *)
(***************************************************************************)
\* FusionRAGStrategy(num_queries = 1).retrieve_documents ran with an embedding
OneQueryEmbedded ==
    /\ op = "retrieve_documents"
    /\ ret_strategy.class = "FusionRAGStrategy"
    /\ ret_strategy.num_queries = 1
    /\ ret_embeds[1].kind = "vectors"

OneSearchHits == ret_finds[1].docs

\* (1/(60 + rank) + similarity) / 2 for the hit at rank, counted from 1
SingleScore(rank) == FHalf(FAdd(FRecip(60 + rank), OneSearchHits[rank].score))

\* hit x comes before hit y in descending order of SingleScore, ties in hit order
HitBefore(x, y) ==
    \/ FLess(SingleScore(y), SingleScore(x))
    \/ SingleScore(x) = SingleScore(y) /\ x < y

\* the returned documents are the first limit hits in that order, one per hit
TopHitsReturned ==
    LET docs == ret_result.docs
        n    == Len(OneSearchHits)
    IN  /\ ~ret_result.raised
        /\ Len(docs) = Min(ret_limit, n)
        /\ \E pi \in [1..Len(docs) -> 1..n] :
            /\ \A i \in 1..Len(docs) :
                   docs[i] = [text |-> OneSearchHits[pi[i]].text, score |-> SingleScore(pi[i])]
            /\ \A i, j \in 1..Len(docs) : i < j => HitBefore(pi[i], pi[j])
            /\ \A h \in 1..n :
                   (\A i \in 1..Len(docs) : pi[i] # h) =>
                       \A i \in 1..Len(docs) : HitBefore(pi[i], h)

OneSearchIssued ==
    ret_result.searches = <<[query |-> RetrieveQuery, limit |-> 2 * ret_limit]>>

DistinctHits ==
    \A i, j \in 1..Len(OneSearchHits) : i # j => OneSearchHits[i].text # OneSearchHits[j].text

(***************************************************************************)
(* C25 as claimed: with num_queries = 1 and a successful embedding,        *)
(* retrieve_documents issues exactly one vector search (the original       *)
(* query, 2 * limit hits), gives each returned text a single contribution, *)
(* scores it (1/(60 + rank) + similarity)/2 with rank counted from 1, and  *)
(* returns the top limit texts by that score in descending order.          *)
(***************************************************************************)
C25_Claimed ==
    OneQueryEmbedded =>
        /\ OneSearchIssued
        /\ ret_finds[1].kind = "docs" => TopHitsReturned

(***************************************************************************)
(* C25: with num_queries = 1 and a successful embedding,                   *)
(* retrieve_documents issues exactly one vector search (the original       *)
(* query, 2 * limit hits); when the search returns hits whose texts are    *)
(* pairwise distinct, each returned text has a single contribution, its    *)
(* score is (1/(60 + rank) + similarity)/2 with rank counted from 1, and   *)
(* the top limit texts by that score are returned in descending order.     *)
(***************************************************************************)
C25_OneQuery ==
    OneQueryEmbedded =>
        /\ OneSearchIssued
        /\ (ret_finds[1].kind = "docs" /\ DistinctHits) => TopHitsReturned

\* two hits in ascending order of score and limit 1: the second hit is returned
C25_Witness ==
    /\ OneQueryEmbedded
    /\ ret_limit = 1
    /\ ret_finds[1] = Hits(<<[text |-> <<"b">>, score |-> QuarterScore],
                             [text |-> <<"a">>, score |-> HalfScore]>>)
    /\ Len(ret_result.docs) = 1
    /\ ret_result.docs[1].text = <<"a">>

(***************************************************************************)
(* Reading a reranked result back against the initial retrieval.           *)
(***************************************************************************)
\* ReRankRAGStrategy.retrieve_documents reranked a non-empty initial retrieval
\* with a model response
Reranked ==
    /\ op = "retrieve_documents"
    /\ ret_strategy.class = "ReRankRAGStrategy"
    /\ ret_embeds[1] = Vectors
    /\ ret_finds[1].kind = "docs"
    /\ ret_finds[1].docs # <<>>
    /\ ret_reply.kind = "text"
    /\ ret_reply.text # <<>>

(***************************************************************************)
(* C28 as claimed: ReRankRAGStrategy.retrieve_documents never returns the  *)
(* same candidate twice: for every model response the reranked result      *)
(* consists of min(limit, n) distinct documents of the initial retrieval,  *)
(* with strictly decreasing synthetic scores 1 - position/limit starting   *)
(* at 1.0.                                                                 *)
(***************************************************************************)
C28_Claimed ==
    Reranked =>
        LET docs == ret_result.docs
            hits == ret_finds[1].docs
        IN  /\ Len(docs) = Min(ret_limit, Len(hits))
            /\ \E pi \in [1..Len(docs) -> 1..Len(hits)] :
                /\ \A i, j \in 1..Len(docs) : i # j => pi[i] # pi[j]
                /\ \A i \in 1..Len(docs) : docs[i].text = hits[pi[i]].text
            /\ \A i \in 1..Len(docs) :
                   docs[i].score = FOneMinus(FDivInt(FromInt(i - 1), ret_limit))
            /\ docs[1].score = FOne
            /\ \A i \in 1..(Len(docs) - 1) : FLess(docs[i + 1].score, docs[i].score)

(***************************************************************************)
(* Reading what the provider sent back against the chat history.           *)
(***************************************************************************)
\* a chat message as an entry of the conversation sent to the model
SentEntry(message) == [role |-> message.role, parts |-> <<message.content>>]

\* generate_answer ran with documents and the provider sent a conversation
ConversationSent ==
    /\ op = "generate_answer"
    /\ retrieved_documents # <<>>
    /\ generation_model_id # None

(***************************************************************************)
(* C30 as claimed: whenever generate_answer runs with a non-empty document *)
(* list, the conversation that the Gemini provider sends to the model is   *)
(* the system instruction, followed by the prior chat history in original  *)
(* order and then the prompt, for every chat_history length.               *)
(***************************************************************************)
C30_Claimed ==
    ConversationSent =>
        /\ Len(generate_calls) = 1
        /\ generate_calls[1].sent =
               <<SentEntry(SystemMessage)>>
                   \o [i \in 1..Len(chat_history) |-> SentEntry(chat_history[i])]
                   \o <<[role |-> "user", parts |-> <<full_prompt>>]>>

(***************************************************************************)
(* C21: the toggles of the interactive pipeline.                           *)
(***************************************************************************)
Answered == op \in {"app_answer", "console_answer"}

\* the fusion stage did not run: the toggle is off or there is no FusionRetriever
FusionOff == op = "app_answer" /\ ~(use_fusion /\ fusion_retriever # None)

\* the cross-encoder did not run: toggle off, no Reranker, or a Reranker that
\* disabled itself
RerankingOff ==
    \/ op = "app_answer" /\ ~use_reranking
    \/ reranker = NoReranker
    \/ reranker \in Rerankers /\ ~reranker.enabled

MemoryFirst ==
    (IF memory_context # "" THEN <<memory_context>> ELSE <<>>) \o rag_texts \o web_texts

FirstFive(texts) == SubSeq(texts, 1, IF Len(texts) < 5 THEN Len(texts) ELSE 5)

\* C21 as stated: with fusion off the candidate list is memory context, merged
\* RAG texts, web texts in that order; with reranking off the context passed to
\* generation is the first 5 items of the candidate list; at most 5 retrieved
\* texts are passed in every combination
C21_Claimed ==
    Answered =>
        /\ FusionOff => candidate_texts = MemoryFirst
        /\ RerankingOff => generation_context = FirstFive(candidate_texts)
        /\ Len(retrieved_texts) <= 5

\* C21: with fusion off the candidate list is memory context, merged RAG texts,
\* web texts in that order; with reranking off the retrieved texts are the first
\* 5 items of the candidate list; at most 5 retrieved texts are passed in every
\* combination, after a conversation-history entry when there is memory context
C21_Toggles ==
    Answered =>
        /\ FusionOff => candidate_texts = MemoryFirst
        /\ RerankingOff => retrieved_texts = FirstFive(candidate_texts)
        /\ Len(retrieved_texts) <= 5
        /\ memory_context = "" => generation_context = retrieved_texts
        /\ memory_context # "" =>
               generation_context = <<HistoryBlock(memory_context)>> \o retrieved_texts

C21_Witness ==
    /\ op = "app_answer"
    /\ ~use_fusion
    /\ ~use_reranking
    /\ memory_context # ""
    /\ rag_texts # <<>>
    /\ web_texts # <<>>
    /\ Len(candidate_texts) > 5
    /\ Len(retrieved_texts) = 5

(***************************************************************************)
(* C29: two answer_rag_question calls on one session and project.          *)
(***************************************************************************)
\* the stored history is a sequence of whole exchanges: a user message and,
\* right after it, the assistant answer written by the same call
WholeExchanges ==
    /\ Len(chat_rows) % 2 = 0
    /\ \A i \in 1..Len(chat_rows) :
           i % 2 = 1 =>
               /\ chat_rows[i].role = UserRole
               /\ chat_rows[i + 1].role = AssistantRole
               /\ row_call[i] = row_call[i + 1]

\* no call is between its two add_message calls
NoneHalfSaved == \A c \in Calls : call_pc[c] # "save_assistant"

\* every add_message so far returned True
AllStored == \A c \in Calls : \A i \in 1..Len(call_stored[c]) : call_stored[c][i]

====
